---- MODULE Spec2Model ----
(***************************************************************************)
(* Temporal knowledge graph of jbarnes850/Arc: the SQLite graph store      *)
(* (SQLitePersistenceService), the history extractor                       *)
(* (GitHubIntegrationService.indexCommitHistory), the structural parser     *)
(* (CodeParserService.parseFile) and the identity and versioning engine     *)
(* (KnowledgeGraphService.processCommit), driven either by free API calls   *)
(* (Spec) or by the cold / incremental index of the benchmark (MainSpec);  *)
(* decision records and their links (DecisionSpec), histories read back    *)
(* (TraceSpec) and the ingestion run commit by commit (IngestSpec).        *)
(*                                                                         *)
(* Strings that the code builds by joining parts with ':' or '/' are       *)
(* sequences of parts; a SHA digest is the tagged sequence of its input     *)
(* (collision free).  NULL is the empty sequence.                          *)
(***************************************************************************)
EXTENDS Integers, Sequences, FiniteSets, TLC

VARIABLES db, tree, head, enableFileCache, hist, done, last, main, coldSnap

vars == <<db, tree, head, enableFileCache, hist, done, last, main, coldSnap>>

(***************************************************************************)
(* Bounds                                                                  *)
(***************************************************************************)
NumCommits == 4

\* the readings Date.now() gives across the calls of a run
MaxClock == 2

\* the greatest limit a history query is called with
MaxLimit == 2

\* the longest git log an ingestion run is followed through, write by write
MaxLogLen == 21

\* the times one run finds the memory above the emergency threshold
MaxEmergencies == 1

\* the ticks of the 30 s timer of the memory monitor that are followed
MaxTicks == 3

(***************************************************************************)
(* Program constants                                                       *)
(***************************************************************************)
MAX_FILE_SIZE_BYTES == 1048576

NULL == <<>>

\* parseInt of a piece that is not a number; it is bound as NULL
NaN == -1

Sha256(input) == <<"sha256", input>>

Sha1(input) == <<"sha1", input>>

(***************************************************************************)
(* The repository under index: its path, its working tree and its log.     *)
(***************************************************************************)
RepoPath == <<"work", "arc">>

RepoName == <<"arc">>

RepoId == Sha256(RepoPath)

fA == <<"src", "a", "index.ts">>
fB == <<"src", "b", "index.ts">>
fU == <<"src", "util.ts">>
fR == <<"README.md">>
fBig == <<"dist", "bundle.js">>
fOld == <<"src", "old.ts">>
fGen == <<"src", "gen.ts">>

Files == {fA, fB, fU, fR, fBig, fOld, fGen}

Basename(p) == <<p[Len(p)]>>

ExtName(p) ==
    CASE p[Len(p)] \in {"index.ts", "util.ts", "old.ts", "gen.ts"} -> ".ts"
      [] p[Len(p)] = "bundle.js" -> ".js"
      [] OTHER -> ".md"

FullPath(filePath) == RepoPath \o filePath

RelPath(fullPath) == SubSeq(fullPath, Len(RepoPath) + 1, Len(fullPath))

\* fs.statSync: the size of a file of the working tree, -1 when it is gone
StatSize(fullPath) ==
    CASE RelPath(fullPath) = fBig -> 2 * MAX_FILE_SIZE_BYTES
      [] RelPath(fullPath) = fOld -> -1
      [] OTHER -> 2048

\* the declarations tree-sitter finds in a file of the working tree
Declarations(fullPath) ==
    CASE RelPath(fullPath) \in {fA, fB} -> <<[node |-> "class_declaration", name |-> "Foo"]>>
      [] RelPath(fullPath) = fU -> <<[node |-> "function_declaration", name |-> "helper"]>>
      [] OTHER -> <<>>

\* parser.parse or the walk over its tree throws on the content of the file
ParserThrows(fullPath) == RelPath(fullPath) = fGen

Commits == 1..NumCommits

Histories == {"clean", "samename"}

\* %ct of a commit, in seconds: one second per commit in the clean history;
\* in the other one commits 1 and 2 carry the same second
CommitSeconds(h, c) == IF h = "clean" \/ c = 1 THEN c ELSE c - 1

AuthorEmail(c) == IF c % 2 = 1 THEN "ana@arc.dev" ELSE "bo@arc.dev"

CommitterEmail(c) == "ana@arc.dev"

\* in the history "piped" the author of commit 2 has a '|' in the name: the
\* name is two of the pieces that split('|') makes of the line
AuthorName(h, c) == IF h = "piped" /\ c = 2 THEN <<"Bo", "Ops">> ELSE <<"Ana">>

\* one line of git log --pretty=format:"%H|%an|%ae|%cn|%ce|%ct|%s", split at
\* '|': each piece is its text, or the digits of %ct
LogLine(h, c) ==
    <<<<"text", c>>>>
    \o [i \in 1..Len(AuthorName(h, c)) |-> <<"text", AuthorName(h, c)[i]>>]
    \o <<<<"text", AuthorEmail(c)>>, <<"text", "Committer">>, <<"text", CommitterEmail(c)>>,
         <<"digits", CommitSeconds(h, c)>>, <<"text", "subject">>>>

\* git log --no-merges: newest first
RECURSIVE GitLog(_)
GitLog(n) == IF n = 0 THEN <<>> ELSE <<n>> \o GitLog(n - 1)

\* git show --name-only: the files a commit changed, per history
CleanHistory(c) ==
    CASE c % 3 = 1 -> <<fA, fU, fR>>
      [] c % 3 = 2 -> <<fU, fBig, fOld>>
      [] OTHER -> <<fA, fU>>

SameNameHistory(c) ==
    CASE c % 3 = 1 -> <<fA, fU, fR>>
      [] c % 3 = 2 -> <<fU, fB, fBig>>
      [] OTHER -> <<fR, fOld>>

\* a history whose commits all change a generated file next to a source file
GeneratedHistory(c) == <<fGen, fU>>

ChangedFiles(h, c) ==
    CASE h = "clean" -> CleanHistory(c)
      [] h = "generated" -> GeneratedHistory(c)
      [] OTHER -> SameNameHistory(c)

(***************************************************************************)
(* CodeParserService                                                       *)
(***************************************************************************)
SupportedExtensions == {".ts", ".tsx", ".js", ".py"}

canParseFile(filePath) == ExtName(filePath) \in SupportedExtensions

generateElementId(repoId, identifier, type) == Sha256(<<repoId, <<type>>, identifier>>)

getRelativePath(filePath) == Basename(filePath)

declElement(decl, filePath, repoId) ==
    LET kind == IF decl.node = "class_declaration" THEN "class" ELSE "function"
        stableIdentifier == getRelativePath(filePath) \o <<kind, decl.name>>
    IN [elementId |-> generateElementId(repoId, stableIdentifier, kind),
        repoId |-> repoId,
        type |-> kind,
        stableIdentifier |-> stableIdentifier]

parseFile(filePath, repoId) ==
    LET fileElement == [elementId |-> generateElementId(repoId, filePath, "file"),
                        repoId |-> repoId,
                        type |-> "file",
                        stableIdentifier |-> getRelativePath(filePath)]
        decls == Declarations(filePath)
    IN IF ParserThrows(filePath) THEN <<>>
       ELSE <<fileElement>> \o
            [i \in 1..Len(decls) |-> declElement(decls[i], filePath, repoId)]

(***************************************************************************)
(* SQLitePersistenceService: tables are sets of rows; a write returns the  *)
(* new store and whether the statement succeeded.  INSERT OR REPLACE       *)
(* deletes the rows that conflict on the primary key or on a UNIQUE        *)
(* constraint, inserts the row, and the foreign keys are checked when the  *)
(* statement ends (foreign_keys = ON); a failed statement changes nothing. *)
(* Each statement checks the constraints it can break; ForeignKeysHold is  *)
(* the schema's whole set, kept by every statement.  The commit_parents    *)
(* table keeps its rows in the order of their rowid.                       *)
(***************************************************************************)
EmptyDb ==
    [repositories |-> {}, developers |-> {}, commits |-> {},
     code_elements |-> {}, code_element_versions |-> {}, file_hashes |-> {},
     decision_records |-> {}, decision_references_code |-> {},
     commit_parents |-> <<>>, open |-> TRUE]

ForeignKeysHold(d) ==
    /\ \A c \in d.commits :
          /\ \E r \in d.repositories : r.repoId = c.repoId
          /\ \E a \in d.developers : a.devId = c.authorDevId
          /\ \E a \in d.developers : a.devId = c.committerDevId
    /\ \A e \in d.code_elements : \E r \in d.repositories : r.repoId = e.repoId
    /\ \A v \in d.code_element_versions :
          /\ \E e \in d.code_elements : e.elementId = v.elementId
          /\ \E c \in d.commits : c.commitHash = v.commitHash
          /\ v.previousVersionId # NULL =>
                \E p \in d.code_element_versions : p.versionId = v.previousVersionId
    /\ \A h \in d.file_hashes : \E r \in d.repositories : r.repoId = h.repoId
    /\ \A x \in d.decision_records :
          /\ \E r \in d.repositories : r.repoId = x.repoId
          /\ x.authorDevId # NULL => \E a \in d.developers : a.devId = x.authorDevId
    /\ \A x \in d.decision_references_code :
          /\ \E y \in d.decision_records : y.decisionId = x.decisionId
          /\ \E v \in d.code_element_versions : v.versionId = x.versionId
    /\ \A i \in 1..Len(d.commit_parents) :
          /\ \E c \in d.commits : c.commitHash = d.commit_parents[i].commitHash
          /\ \E c \in d.commits : c.commitHash = d.commit_parents[i].parentHash

\* a statement either commits its result or, when the connection is not there
\* ('Database not initialized') or a constraint fails, rejects and changes nothing
Statement(d, after, constraintsHold) ==
    IF d.open /\ constraintsHold THEN [db |-> after, ok |-> TRUE] ELSE [db |-> d, ok |-> FALSE]

\* the rows a SELECT without ORDER BY returns, in the order the engine
\* happens to produce: one fixed order here, no caller depends on it
RECURSIVE RowsOf(_)
RowsOf(rows) ==
    IF rows = {} THEN <<>>
    ELSE LET row == CHOOSE r \in rows : TRUE
         IN <<row>> \o RowsOf(rows \ {row})

\* faulty variant: a plain INSERT into a table without the primary key
saveRepositoryInserting(d, repository) ==
    Statement(d, [d EXCEPT !.repositories = @ \cup {repository}], TRUE)

saveRepository(d, repository) ==
    Statement(d, [d EXCEPT !.repositories =
                     {r \in @ : r.repoId # repository.repoId} \cup {repository}],
              TRUE)

getRepository(d, repoId) ==
    IF \E r \in d.repositories : r.repoId = repoId
    THEN CHOOSE r \in d.repositories : r.repoId = repoId
    ELSE NULL

getRepositoryIds(d) ==
    LET rows == RowsOf(d.repositories)
    IN [i \in 1..Len(rows) |-> rows[i].repoId]

saveDeveloper(d, developer) ==
    LET replaced == {x \in d.developers :
                        x.devId = developer.devId \/ x.email = developer.email}
    IN Statement(d, [d EXCEPT !.developers = (@ \ replaced) \cup {developer}],
                 \A x \in replaced : x.devId # developer.devId =>
                    \A c \in d.commits : x.devId \notin {c.authorDevId, c.committerDevId})

saveCommit(d, commit) ==
    Statement(d, [d EXCEPT !.commits =
                     {c \in @ : c.commitHash # commit.commitHash} \cup {commit}],
              /\ commit.timestamp # NaN
              /\ \E r \in d.repositories : r.repoId = commit.repoId
              /\ \E a \in d.developers : a.devId = commit.authorDevId
              /\ \E a \in d.developers : a.devId = commit.committerDevId)

\* faulty variant: the row added without the conflicting row being deleted
saveCommitParentInserting(d, commitHash, parentHash) ==
    Statement(d, [d EXCEPT !.commit_parents =
                     Append(@, [commitHash |-> commitHash, parentHash |-> parentHash])],
              /\ \E c \in d.commits : c.commitHash = commitHash
              /\ \E c \in d.commits : c.commitHash = parentHash)

\* INSERT OR REPLACE INTO commit_parents: the row with the same
\* (commit_hash, parent_hash) goes and the new row gets the next rowid
saveCommitParent(d, commitHash, parentHash) ==
    LET other(x) == ~(x.commitHash = commitHash /\ x.parentHash = parentHash)
    IN Statement(d, [d EXCEPT !.commit_parents =
                        Append(SelectSeq(d.commit_parents, other),
                               [commitHash |-> commitHash, parentHash |-> parentHash])],
                 /\ \E c \in d.commits : c.commitHash = commitHash
                 /\ \E c \in d.commits : c.commitHash = parentHash)

getCommitParents(d, commitHash) ==
    LET ofCommit(x) == x.commitHash = commitHash
        rows == SelectSeq(d.commit_parents, ofCommit)
    IN [i \in 1..Len(rows) |-> rows[i].parentHash]

getCommitChildren(d, parentHash) ==
    LET ofParent(x) == x.parentHash = parentHash
        rows == SelectSeq(d.commit_parents, ofParent)
    IN [i \in 1..Len(rows) |-> rows[i].commitHash]

getCommit(d, commitHash) ==
    IF \E c \in d.commits : c.commitHash = commitHash
    THEN CHOOSE c \in d.commits : c.commitHash = commitHash
    ELSE NULL

\* INSERT OR REPLACE INTO code_elements: the rows with the same element_id or
\* the same (repo_id, stable_identifier) go; a row that goes for good must
\* have no version left pointing at it
saveCodeElement(d, codeElement) ==
    LET replaced == {e \in d.code_elements :
                        \/ e.elementId = codeElement.elementId
                        \/ /\ e.repoId = codeElement.repoId
                           /\ e.stableIdentifier = codeElement.stableIdentifier}
    IN Statement(d, [d EXCEPT !.code_elements = (@ \ replaced) \cup {codeElement}],
                 /\ \E r \in d.repositories : r.repoId = codeElement.repoId
                 /\ \A e \in replaced : e.elementId # codeElement.elementId =>
                       \A v \in d.code_element_versions : v.elementId # e.elementId)

saveCodeElementVersion(d, version) ==
    Statement(d, [d EXCEPT !.code_element_versions =
                     {v \in @ : v.versionId # version.versionId} \cup {version}],
              /\ \E e \in d.code_elements : e.elementId = version.elementId
              /\ \E c \in d.commits : c.commitHash = version.commitHash
              /\ version.previousVersionId # NULL =>
                    \E p \in d.code_element_versions :
                        p.versionId = version.previousVersionId)

getCodeElementVersion(d, versionId) ==
    IF \E v \in d.code_element_versions : v.versionId = versionId
    THEN CHOOSE v \in d.code_element_versions : v.versionId = versionId
    ELSE NULL

getCodeElementVersions(d, elementId, commitHash) ==
    LET rows == {v \in d.code_element_versions :
                    v.elementId = elementId /\ v.commitHash = commitHash}
    IN IF rows = {} THEN NULL ELSE CHOOSE v \in rows : TRUE

getAllCodeElements(d, repoId) == RowsOf({e \in d.code_elements : e.repoId = repoId})

\* faulty variant: the junction keyed on decision_id alone
linkReplacingDecision(d, decisionId, versionId) ==
    Statement(d, [d EXCEPT !.decision_references_code =
                     {x \in @ : x.decisionId # decisionId}
                     \cup {[decisionId |-> decisionId, versionId |-> versionId]}],
              /\ \E x \in d.decision_records : x.decisionId = decisionId
              /\ \E v \in d.code_element_versions : v.versionId = versionId)

\* faulty variant: the two ids bound to the UPDATE in the wrong order
linkSwapped(d, versionId, previousVersionId) ==
    Statement(d, [d EXCEPT !.code_element_versions =
                     {IF v.versionId = previousVersionId
                      THEN [v EXCEPT !.previousVersionId = versionId]
                      ELSE v : v \in @}],
              \/ \A v \in d.code_element_versions : v.versionId # previousVersionId
              \/ \E p \in d.code_element_versions : p.versionId = versionId)

linkVersionToPreviousVersion(d, versionId, previousVersionId) ==
    Statement(d, [d EXCEPT !.code_element_versions =
                     {IF v.versionId = versionId
                      THEN [v EXCEPT !.previousVersionId = previousVersionId]
                      ELSE v : v \in @}],
              \/ \A v \in d.code_element_versions : v.versionId # versionId
              \/ \E p \in d.code_element_versions : p.versionId = previousVersionId)

saveFileHash(d, repoId, filePath, fileHash) ==
    Statement(d, [d EXCEPT !.file_hashes =
                     {h \in @ : ~(h.repoId = repoId /\ h.filePath = filePath)}
                     \cup {[repoId |-> repoId, filePath |-> filePath, fileHash |-> fileHash]}],
              \E r \in d.repositories : r.repoId = repoId)

getFileHash(d, repoId, filePath) ==
    LET rows == {h \in d.file_hashes : h.repoId = repoId /\ h.filePath = filePath}
    IN IF rows = {} THEN NULL ELSE (CHOOSE h \in rows : TRUE).fileHash

\* faulty variant: the links of the replaced row deleted with it
saveDecisionRecordCascading(d, decision) ==
    Statement(d, [d EXCEPT !.decision_records =
                     {x \in @ : x.decisionId # decision.decisionId} \cup {decision},
                  !.decision_references_code =
                     {x \in @ : x.decisionId # decision.decisionId}],
              /\ \E r \in d.repositories : r.repoId = decision.repoId
              /\ decision.authorDevId # NULL =>
                    \E a \in d.developers : a.devId = decision.authorDevId)

saveDecisionRecord(d, decision) ==
    Statement(d, [d EXCEPT !.decision_records =
                     {x \in @ : x.decisionId # decision.decisionId} \cup {decision}],
              /\ \E r \in d.repositories : r.repoId = decision.repoId
              /\ decision.authorDevId # NULL =>
                    \E a \in d.developers : a.devId = decision.authorDevId)

getDecisionRecord(d, decisionId) ==
    IF \E x \in d.decision_records : x.decisionId = decisionId
    THEN CHOOSE x \in d.decision_records : x.decisionId = decisionId
    ELSE NULL

\* the decision rows joined to the junction rows of a version
findDecisionRecordsLinkedToVersion(d, versionId) ==
    RowsOf({x \in d.decision_records :
               [decisionId |-> x.decisionId, versionId |-> versionId]
                   \in d.decision_references_code})

\* INSERT OR REPLACE INTO decision_references_code: the row is its primary key
linkDecisionToCodeVersion(d, decisionId, versionId) ==
    Statement(d, [d EXCEPT !.decision_references_code =
                     @ \cup {[decisionId |-> decisionId, versionId |-> versionId]}],
              /\ \E x \in d.decision_records : x.decisionId = decisionId
              /\ \E v \in d.code_element_versions : v.versionId = versionId)

\* ORDER BY c.commit_timestamp DESC over the join of commits and versions:
\* one commit row per version; rows of equal timestamp come in the order
\* the engine happens to produce, either one (tieAsc)
JoinRows(d, elementId) ==
    {[commit |-> getCommit(d, v.commitHash), version |-> v] :
        v \in {x \in d.code_element_versions :
                  x.elementId = elementId /\ \E c \in d.commits : c.commitHash = x.commitHash}}

RECURSIVE OrderByTimestampDesc(_, _)
OrderByTimestampDesc(rows, tieAsc) ==
    IF rows = {} THEN <<>>
    ELSE LET top == {r \in rows : \A q \in rows : q.commit.timestamp <= r.commit.timestamp}
             first == CHOOSE r \in top : \A q \in top :
                         IF tieAsc THEN r.commit.commitHash <= q.commit.commitHash
                         ELSE r.commit.commitHash >= q.commit.commitHash
         IN <<first>> \o OrderByTimestampDesc(rows \ {first}, tieAsc)

Take(s, n) == SubSeq(s, 1, IF n < Len(s) THEN n ELSE Len(s))

\* faulty variant: the LIMIT clause never added
getCommitHistoryUnlimited(d, elementId, limit, tieAsc) ==
    LET rows == OrderByTimestampDesc(JoinRows(d, elementId), tieAsc)
    IN [i \in 1..Len(rows) |-> rows[i].commit]

\* the optional limit is NULL (undefined) or <<n>>; `limit ? ... : ''` adds the
\* LIMIT clause when the limit is neither undefined nor 0
getCommitHistoryForElementId(d, elementId, limit, tieAsc) ==
    LET rows == OrderByTimestampDesc(JoinRows(d, elementId), tieAsc)
        commits == [i \in 1..Len(rows) |-> rows[i].commit]
    IN IF limit # NULL /\ limit[1] # 0 THEN Take(commits, limit[1]) ELSE commits

\* faulty variant: the first row of the ascending order
findOldestCodeElementVersion(d, elementId, tieAsc) ==
    LET rows == OrderByTimestampDesc(JoinRows(d, elementId), tieAsc)
    IN IF rows = <<>> THEN NULL ELSE rows[Len(rows)].version

findLatestCodeElementVersion(d, elementId, tieAsc) ==
    LET rows == OrderByTimestampDesc(JoinRows(d, elementId), tieAsc)
    IN IF rows = <<>> THEN NULL ELSE rows[1].version

(***************************************************************************)
(* GitHubIntegrationService                                                *)
(***************************************************************************)
generateDevId(email) == Sha256(<<email>>)

ParseInt(piece) == IF piece[1] = "digits" THEN piece[2] ELSE NaN

\* one line of the log, parsed as indexCommitHistory parses it: the seven
\* names take the first seven pieces
CommitOfLine(h, c, repoId) ==
    LET line == LogLine(h, c)
    IN [commitHash |-> line[1][2],
        repoId |-> repoId,
        timestamp |-> IF ParseInt(line[6]) = NaN THEN NaN ELSE ParseInt(line[6]) * 1000,
        authorDevId |-> generateDevId(line[3][2]),
        committerDevId |-> generateDevId(line[5][2])]

\* the body of the try block for one commit line; a rejected store call
\* leaves what was written before it and skips the rest of the line
IndexOneCommit(d, h, c, repoId) ==
    LET authorEmail == LogLine(h, c)[3][2]
        committerEmail == LogLine(h, c)[5][2]
        r1 == saveDeveloper(d, [devId |-> generateDevId(authorEmail), email |-> authorEmail])
        r2 == IF authorEmail # committerEmail
              THEN saveDeveloper(r1.db, [devId |-> generateDevId(committerEmail),
                                         email |-> committerEmail])
              ELSE r1
        r3 == saveCommit(r2.db, CommitOfLine(h, c, repoId))
    IN IF ~r1.ok THEN r1 ELSE IF ~r2.ok THEN r2 ELSE r3

RECURSIVE IndexCommits(_, _, _, _, _)
IndexCommits(d, h, commits, i, repoId) ==
    IF i > Len(commits) THEN d
    ELSE IndexCommits(IndexOneCommit(d, h, commits[i], repoId).db, h, commits, i + 1, repoId)

indexCommitHistory(d, n, h, repoId) == IndexCommits(d, h, GitLog(n), 1, repoId)

\* the id that the git service gives the commits it reads from a repository
extractRepoIdFromPath(repoPath) == Sha256(Basename(repoPath))

\* gitService.getCommit: git show of a hash the repository does not have fails
gitGetCommit(n, h, commitHash) ==
    IF commitHash \in 1..n THEN CommitOfLine(h, commitHash, extractRepoIdFromPath(RepoPath))
    ELSE NULL

\* git log -n limit -- filePath, newest first: a limit that is not given, or
\* 0, gives the whole log of the file
getCommitsForFile(n, h, filePath, limit) ==
    LET touches(c) == \E i \in 1..Len(ChangedFiles(h, c)) : ChangedFiles(h, c)[i] = filePath
        log == SelectSeq(GitLog(n), touches)
        commitLines == IF limit = NULL \/ limit[1] = 0 \/ limit[1] >= Len(log) THEN log
                       ELSE SubSeq(log, 1, limit[1])
    IN [i \in 1..Len(commitLines) |->
           CommitOfLine(h, commitLines[i], extractRepoIdFromPath(RepoPath))]

(***************************************************************************)
(* KnowledgeGraphService                                                   *)
(***************************************************************************)
\* faulty variant: the commit hash left out of the digest
generateVersionIdOfElement(elementId, commitHash) == Sha256(<<elementId>>)

generateVersionId(elementId, commitHash) == Sha256(<<elementId, <<commitHash>>>>)

getNameFromIdentifier(identifier) == identifier[Len(identifier)]

\* Array.prototype.sort with the comparator commitB.timestamp - commitA.timestamp:
\* a stable sort, descending by the timestamp of the version's commit
RECURSIVE SortByTimestampDesc(_, _, _)
SortByTimestampDesc(versions, i, ts) ==
    IF i = 0 THEN <<>>
    ELSE LET sorted == SortByTimestampDesc(versions, i - 1, ts)
             v == versions[i]
             pos == Cardinality({k \in 1..Len(sorted) : ts[sorted[k].commitHash] >= ts[v.commitHash]})
         IN SubSeq(sorted, 1, pos) \o <<v>> \o SubSeq(sorted, pos + 1, Len(sorted))

\* faulty variant: <= for <
IsEarlierOrEqual(c, commit) == c.timestamp <= commit.timestamp

\* the timestamp filter of getPreviousVersions
IsEarlier(c, commit) == c.timestamp < commit.timestamp

\* the versions of the element at the commits of its history that pass the filter
RECURSIVE PreviousCandidates(_, _, _, _, _)
PreviousCandidates(d, commits, i, elementId, commit) ==
    IF i > Len(commits) THEN <<>>
    ELSE LET c == commits[i]
             rest == PreviousCandidates(d, commits, i + 1, elementId, commit)
         IN IF c.commitHash # commit.commitHash /\ IsEarlier(c, commit)
               /\ getCodeElementVersions(d, elementId, c.commitHash) # NULL
            THEN <<getCodeElementVersions(d, elementId, c.commitHash)>> \o rest
            ELSE rest

getPreviousVersions(d, elementId, commitHash, tieAsc) ==
    IF getCommit(d, commitHash) = NULL THEN <<>>
    ELSE LET commit == getCommit(d, commitHash)
             commits == getCommitHistoryForElementId(d, elementId, NULL, tieAsc)
             allVersions == PreviousCandidates(d, commits, 1, elementId, commit)
             ts == [h \in {commits[k].commitHash : k \in 1..Len(commits)} |->
                       (CHOOSE c \in {commits[k] : k \in 1..Len(commits)} : c.commitHash = h).timestamp]
         IN SortByTimestampDesc(allVersions, Len(allVersions), ts)

getElementCommitHistory(d, elementId, limit, tieAsc) ==
    getCommitHistoryForElementId(d, elementId, limit, tieAsc)

\* faulty variant: the comparison negated
CacheHitOnChange(cache, lastHash, fileHash) == cache /\ lastHash # fileHash

\* faulty variant: the flag not consulted
CacheHitAnyway(cache, lastHash, fileHash) == lastHash = fileHash

\* the file-cache test of processCommit: the cache is on and the stored hash
\* equals the current one
CacheHit(cache, lastHash, fileHash) == cache /\ lastHash = fileHash

\* sha1 of the content the file has in the working tree
ContentHash(wt, filePath) == Sha1(<<filePath, wt[filePath]>>)

\* the state of one processCommit call: the store, whether a store call has
\* rejected (the call then throws), and what the call did so far
StartCall(d) ==
    [db |-> d, err |-> FALSE, parsed |-> {}, skipped |-> {}, cacheReads |-> {},
     cacheWrites |-> {}, saved |-> {}, written |-> {}]

\* the body of the loop over the elements of one parsed file
ProcessElement(st, fullPath, element, commitHash, tieAsc) ==
    LET r1 == saveCodeElement(st.db, element)
        version == [versionId |-> generateVersionId(element.elementId, commitHash),
                    elementId |-> element.elementId,
                    commitHash |-> commitHash,
                    name |-> getNameFromIdentifier(element.stableIdentifier),
                    previousVersionId |-> NULL]
        r2 == saveCodeElementVersion(r1.db, version)
        previousVersions == getPreviousVersions(r2.db, element.elementId, commitHash, tieAsc)
        r3 == IF Len(previousVersions) > 0
              THEN linkVersionToPreviousVersion(r2.db, version.versionId,
                                                previousVersions[1].versionId)
              ELSE r2
        tried == [st EXCEPT !.saved = @ \cup {[file |-> fullPath, element |-> element]}]
    IN IF ~r1.ok THEN [tried EXCEPT !.err = TRUE]
       ELSE IF ~r2.ok THEN [tried EXCEPT !.db = r1.db, !.err = TRUE]
       ELSE [tried EXCEPT !.db = r3.db, !.err = ~r3.ok,
                          !.written = @ \cup {[file |-> fullPath,
                                                 versionId |-> version.versionId]}]

RECURSIVE ProcessElements(_, _, _, _, _, _)
ProcessElements(st, fullPath, codeElements, i, commitHash, tieAsc) ==
    IF i > Len(codeElements) \/ st.err THEN st
    ELSE ProcessElements(ProcessElement(st, fullPath, codeElements[i], commitHash, tieAsc),
                         fullPath, codeElements, i + 1, commitHash, tieAsc)

\* the body of the loop over the changed files of the commit
ProcessFile(st, filePath, repoId, commitHash, cache, wt, tieAsc) ==
    LET fullPath == FullPath(filePath)
        fileHash == ContentHash(wt, filePath)
        lastHash == getFileHash(st.db, repoId, fullPath)
        read == IF cache THEN [st EXCEPT !.cacheReads = @ \cup {fullPath}] ELSE st
        parsedSt == ProcessElements([read EXCEPT !.parsed = @ \cup {fullPath}], fullPath,
                                    parseFile(fullPath, repoId), 1, commitHash, tieAsc)
        r == saveFileHash(parsedSt.db, repoId, fullPath, fileHash)
    IN IF StatSize(fullPath) < 0 \/ StatSize(fullPath) > MAX_FILE_SIZE_BYTES THEN st
       ELSE IF ~canParseFile(fullPath) THEN st
       ELSE IF CacheHit(cache, lastHash, fileHash)
            THEN [read EXCEPT !.skipped = @ \cup {fullPath}]
       ELSE IF parsedSt.err \/ ~cache THEN parsedSt
       ELSE [parsedSt EXCEPT !.db = r.db, !.err = ~r.ok,
                             !.cacheWrites = @ \cup {fullPath}]

RECURSIVE ProcessFiles(_, _, _, _, _, _, _, _)
ProcessFiles(st, changedFiles, i, repoId, commitHash, cache, wt, tieAsc) ==
    IF i > Len(changedFiles) \/ st.err THEN st
    ELSE ProcessFiles(ProcessFile(st, changedFiles[i], repoId, commitHash, cache, wt, tieAsc),
                      changedFiles, i + 1, repoId, commitHash, cache, wt, tieAsc)

processCommit(d, repoId, commitHash, n, h, cache, wt, tieAsc) ==
    IF gitGetCommit(n, h, commitHash) = NULL THEN [StartCall(d) EXCEPT !.err = TRUE]
    ELSE ProcessFiles(StartCall(d), ChangedFiles(h, commitHash), 1, repoId, commitHash,
                      cache, wt, tieAsc)

\* faulty variant: the version pushed before the test for a missing one
RECURSIVE FollowPreviousUnchecked(_, _, _)
FollowPreviousUnchecked(d, currentVersion, fuel) ==
    IF currentVersion.previousVersionId = NULL \/ fuel = 0 THEN <<>>
    ELSE LET previousVersion == getCodeElementVersion(d, currentVersion.previousVersionId)
         IN <<previousVersion>> \o
            (IF previousVersion = NULL THEN <<>>
             ELSE FollowPreviousUnchecked(d, previousVersion, fuel - 1))

RECURSIVE FollowPrevious(_, _, _)
FollowPrevious(d, currentVersion, fuel) ==
    IF currentVersion.previousVersionId = NULL \/ fuel = 0 THEN <<>>
    ELSE IF getCodeElementVersion(d, currentVersion.previousVersionId) = NULL THEN <<>>
    ELSE LET previousVersion == getCodeElementVersion(d, currentVersion.previousVersionId)
         IN <<previousVersion>> \o FollowPrevious(d, previousVersion, fuel - 1)

\* the walk is cut after as many links as the table has rows: a longer walk
\* is a walk around a cycle, which the code would not leave
traceElementHistory(d, elementId, tieAsc) ==
    IF findLatestCodeElementVersion(d, elementId, tieAsc) = NULL THEN <<>>
    ELSE LET latestVersion == findLatestCodeElementVersion(d, elementId, tieAsc)
         IN <<latestVersion>> \o
            FollowPrevious(d, latestVersion, Cardinality(d.code_element_versions))

\* faulty variant: no test for the missing version
linkDecisionToNothing(d, decisionId, elementId, tieAsc) ==
    LET latestVersion == findLatestCodeElementVersion(d, elementId, tieAsc)
        r == linkDecisionToCodeVersion(d, decisionId, latestVersion.versionId)
    IN IF latestVersion = NULL THEN [db |-> d, err |-> FALSE, versionId |-> NULL]
       ELSE [db |-> r.db, err |-> ~r.ok, versionId |-> latestVersion.versionId]

\* the result: the store, whether the call threw, and the version it resolved
linkDecisionToElement(d, decisionId, elementId, tieAsc) ==
    LET latestVersion == findLatestCodeElementVersion(d, elementId, tieAsc)
        r == linkDecisionToCodeVersion(d, decisionId, latestVersion.versionId)
    IN IF latestVersion = NULL THEN [db |-> d, err |-> TRUE, versionId |-> NULL]
       ELSE [db |-> r.db, err |-> ~r.ok, versionId |-> latestVersion.versionId]

getLabelFromIdentifier(identifier) ==
    IF Len(identifier) = 1 THEN identifier[1]
    ELSE IF Len(identifier) >= 3 /\ identifier[2] \in {"class", "function"} THEN identifier[3]
    ELSE identifier

\* faulty variant: an edge for every element that is not a file
isNotFile(element) == element.type # "file"

\* the elements that get a containment edge
isClass(element) == element.type = "class"

\* the nodes carry the decision flag they have when the call returns
getArchitectureDiagramData(d, repoId, tieAsc) ==
    LET elements == getAllCodeElements(d, repoId)
        hasDecisions(elementId) ==
            LET version == findLatestCodeElementVersion(d, elementId, tieAsc)
            IN version # NULL
               /\ Len(findDecisionRecordsLinkedToVersion(d, version.versionId)) > 0
        filePath(element) == <<element.stableIdentifier[1]>>
        isFileOf(e, element) == e.type = "file" /\ e.stableIdentifier = filePath(element)
        hasFile(element) ==
            isClass(element) /\ \E k \in 1..Len(elements) : isFileOf(elements[k], element)
        fileElement(element) ==
            elements[CHOOSE k \in 1..Len(elements) :
                        /\ isFileOf(elements[k], element)
                        /\ \A j \in 1..(k - 1) : ~isFileOf(elements[j], element)]
        contained == SelectSeq(elements, hasFile)
    IN [nodes |-> [i \in 1..Len(elements) |->
                      [id |-> elements[i].elementId,
                       type |-> elements[i].type,
                       label |-> getLabelFromIdentifier(elements[i].stableIdentifier),
                       elementId |-> elements[i].elementId,
                       hasDecisions |-> hasDecisions(elements[i].elementId)]],
        edges |-> [i \in 1..Len(contained) |->
                      [source |-> fileElement(contained[i]).elementId,
                       target |-> contained[i].elementId,
                       type |-> "contains"]]]

\* faulty variant: the test for a version at the commit left out
getElementsOfRepository(d, commitHash) ==
    LET commit == getCommit(d, commitHash)
    IN IF commit = NULL THEN [err |-> TRUE, elements |-> <<>>]
       ELSE [err |-> FALSE, elements |-> getAllCodeElements(d, commit.repoId)]

\* the result: whether the call threw, and the elements it returned
getElementsModifiedByCommit(d, commitHash) ==
    LET commit == getCommit(d, commitHash)
        allElements == getAllCodeElements(d, commit.repoId)
        hasVersion(element) == getCodeElementVersions(d, element.elementId, commitHash) # NULL
    IN IF commit = NULL THEN [err |-> TRUE, elements |-> <<>>]
       ELSE [err |-> FALSE, elements |-> SelectSeq(allElements, hasVersion)]

(***************************************************************************)
(* DecisionRecordService                                                   *)
(***************************************************************************)
\* faulty variant: the repository left out of the digest
generateDecisionIdOfTitle(repoId, title) == Sha256(<<<<"decision">>, <<title>>>>)

generateDecisionId(repoId, title) == Sha256(<<repoId, <<"decision">>, <<title>>>>)

\* now is Date.now() at the call
createDecisionRecord(d, title, content, repoId, authorDevId, now) ==
    LET decision == [decisionId |-> generateDecisionId(repoId, title),
                     repoId |-> repoId,
                     title |-> title,
                     content |-> content,
                     createdAt |-> now,
                     authorDevId |-> authorDevId]
        r == saveDecisionRecord(d, decision)
    IN [db |-> r.db, err |-> ~r.ok, decision |-> decision]

(***************************************************************************)
(* State                                                                   *)
(*   db               the store (one SQLite file)                          *)
(*   tree             the working tree: which files differ from the commit  *)
(*   head             the number of commits the repository has             *)
(*   enableFileCache  the flag the KnowledgeGraphService was built with    *)
(*   hist             which history the repository has                     *)
(*   done             the commits for which a processCommit has completed   *)
(*                    since the working tree and the setting last changed   *)
(*   last             what the last step did, when it was a processCommit  *)
(*   main, coldSnap   position of the benchmark run and the store it had   *)
(*                    when its cold index ended                            *)
(***************************************************************************)
\* the files of the working tree that processCommit would parse
SourceFiles ==
    {f \in Files : /\ StatSize(FullPath(f)) >= 0
                   /\ StatSize(FullPath(f)) <= MAX_FILE_SIZE_BYTES
                   /\ canParseFile(FullPath(f))}

Call(op, c, st, redo) ==
    [op |-> op, commit |-> c, err |-> st.err, parsed |-> st.parsed, skipped |-> st.skipped,
     cacheReads |-> st.cacheReads, cacheWrites |-> st.cacheWrites, saved |-> st.saved,
     written |-> st.written, redo |-> redo]

NoCall == Call("none", 0, StartCall(EmptyDb), FALSE)

MainOff == [phase |-> "off", i |-> 0, log |-> <<>>]

TypeOK ==
    /\ head \in 1..NumCommits
    /\ enableFileCache \in BOOLEAN
    /\ hist \in Histories
    /\ tree \in [Files -> BOOLEAN]
    /\ done \subseteq Commits
    /\ ForeignKeysHold(db)

Init ==
    /\ db = EmptyDb
    /\ tree = [f \in Files |-> FALSE]
    /\ head = NumCommits - 1
    /\ enableFileCache \in BOOLEAN
    /\ hist \in Histories
    /\ done = {}
    /\ last = NoCall
    /\ main = MainOff
    /\ coldSnap = EmptyDb

\* extension.ts indexRepositoryCommand / the benchmark: the repository record
SaveRepository ==
    /\ db' = saveRepository(db, [repoId |-> RepoId, path |-> RepoPath, name |-> RepoName]).db
    /\ last' = NoCall
    /\ UNCHANGED <<tree, head, enableFileCache, hist, main, coldSnap, done>>

IndexCommitHistory ==
    /\ db' = indexCommitHistory(db, head, hist, RepoId)
    /\ last' = NoCall
    /\ UNCHANGED <<tree, head, enableFileCache, hist, main, coldSnap, done>>

ProcessCommitCall(c, tieAsc) ==
    LET st == processCommit(db, RepoId, c, head, hist, enableFileCache, tree, tieAsc)
    IN /\ db' = st.db
       /\ done' = IF st.err THEN done ELSE done \cup {c}
       /\ last' = Call("processCommit", c, st, c \in done /\ getCommit(db, c) # NULL)

ProcessCommit ==
    \E c \in Commits, tieAsc \in BOOLEAN :
        /\ ProcessCommitCall(c, tieAsc)
        /\ UNCHANGED <<tree, head, enableFileCache, hist, main, coldSnap>>

\* a developer commits: the log grows by one commit
GitCommit ==
    /\ head < NumCommits
    /\ head' = head + 1
    /\ last' = NoCall
    /\ UNCHANGED <<db, tree, enableFileCache, hist, main, coldSnap, done>>

Next ==
    \/ SaveRepository
    \/ IndexCommitHistory
    \/ ProcessCommit
    \/ GitCommit

Spec == Init /\ [][Next]_vars

(***************************************************************************)
(* The same calls over a history with a file the parser throws on.         *)
(***************************************************************************)
ParseInit ==
    /\ db = EmptyDb
    /\ tree = [f \in Files |-> FALSE]
    /\ head = NumCommits - 1
    /\ enableFileCache \in BOOLEAN
    /\ hist \in {"clean", "generated"}
    /\ done = {}
    /\ last = NoCall
    /\ main = MainOff
    /\ coldSnap = EmptyDb

ParseSpec == ParseInit /\ [][Next]_vars

(***************************************************************************)
(* Sessions over one store, each an incremental update for the newest      *)
(* commit: between the calls the working tree is edited and restored, the  *)
(* developer commits, and the file cache is switched on and off.           *)
(***************************************************************************)
SessionInit ==
    /\ db = EmptyDb
    /\ tree = [f \in Files |-> FALSE]
    /\ head = 1
    /\ enableFileCache \in BOOLEAN
    /\ hist \in Histories
    /\ done = {}
    /\ last = NoCall
    /\ main = MainOff
    /\ coldSnap = EmptyDb

\* a source file of a clean working tree is edited (its declarations stay)
EditFile ==
    \E f \in SourceFiles :
        /\ \A g \in Files : ~tree[g]
        /\ tree' = [tree EXCEPT ![f] = TRUE]
        /\ done' = {}
        /\ last' = NoCall
        /\ UNCHANGED <<db, head, enableFileCache, hist, main, coldSnap>>

\* the edited files are written back as they were
RestoreFiles ==
    /\ \E g \in Files : tree[g]
    /\ tree' = [f \in Files |-> FALSE]
    /\ done' = {}
    /\ last' = NoCall
    /\ UNCHANGED <<db, head, enableFileCache, hist, main, coldSnap>>

\* the arc.enableFileCache setting is changed and the services are built
\* again over the same store
Reconfigure ==
    /\ enableFileCache' = ~enableFileCache
    /\ done' = {}
    /\ last' = NoCall
    /\ UNCHANGED <<db, tree, head, hist, main, coldSnap>>

\* processCommit for the newest commit of the log
ProcessHead ==
    /\ \E tieAsc \in BOOLEAN : ProcessCommitCall(head, tieAsc)
    /\ UNCHANGED <<tree, head, enableFileCache, hist, main, coldSnap>>

SessionNext ==
    \/ SaveRepository
    \/ IndexCommitHistory
    \/ ProcessHead
    \/ GitCommit
    \/ EditFile
    \/ RestoreFiles
    \/ Reconfigure

SessionSpec == SessionInit /\ [][SessionNext]_vars

(***************************************************************************)
(* The benchmark's main: repository record, indexCommitHistory, a cold     *)
(* index (processCommit for every hash of the log, in log order), an edit  *)
(* of some source files, the incremental index over the same hashes, and   *)
(* the restore of the edited files.  A processCommit that throws ends it.  *)
(* The service runs with either value of enableFileCache: the benchmark    *)
(* passes true, the constructor's default is false.                        *)
(***************************************************************************)
MainInit ==
    /\ db = EmptyDb
    /\ tree = [f \in Files |-> FALSE]
    /\ head \in Commits
    /\ enableFileCache \in BOOLEAN
    /\ hist \in Histories
    /\ done = {}
    /\ last = NoCall
    /\ main = [phase |-> "start", i |-> 0, log |-> <<>>]
    /\ coldSnap = EmptyDb

MainSaveRepository ==
    /\ main.phase = "start"
    /\ db' = saveRepository(db, [repoId |-> RepoId, path |-> RepoPath, name |-> RepoName]).db
    /\ last' = NoCall
    /\ main' = [main EXCEPT !.phase = "history", !.log = GitLog(head)]
    /\ UNCHANGED <<tree, head, enableFileCache, hist, coldSnap, done>>

MainIndexHistory ==
    /\ main.phase = "history"
    /\ db' = indexCommitHistory(db, head, hist, RepoId)
    /\ last' = NoCall
    /\ main' = [main EXCEPT !.phase = "cold", !.i = 1]
    /\ UNCHANGED <<tree, head, enableFileCache, hist, coldSnap, done>>

\* one pass of either loop over the log: processCommit for the hash at main.i;
\* the cold loop is followed by the edits, the incremental one by the restore
MainProcessCommit ==
    /\ main.phase \in {"cold", "incremental"}
    /\ \E c \in Commits, tieAsc \in BOOLEAN :
          c = main.log[main.i] /\ ProcessCommitCall(c, tieAsc)
    /\ main' = IF last'.err THEN [main EXCEPT !.phase = "failed"]
               ELSE IF main.i < Len(main.log) THEN [main EXCEPT !.i = @ + 1]
               ELSE IF main.phase = "cold" THEN [main EXCEPT !.phase = "mutate", !.i = 0]
               ELSE [main EXCEPT !.phase = "restore", !.i = 0]
    /\ coldSnap' = IF main'.phase = "mutate" THEN db' ELSE coldSnap
    /\ UNCHANGED <<tree, head, enableFileCache, hist>>

MainMutate ==
    /\ main.phase = "mutate"
    /\ \E S \in SUBSET SourceFiles : tree' = [f \in Files |-> f \in S]
    /\ done' = IF tree' = tree THEN done ELSE {}
    /\ last' = NoCall
    /\ main' = [main EXCEPT !.phase = "incremental", !.i = 1]
    /\ UNCHANGED <<db, head, enableFileCache, hist, coldSnap>>

MainRestore ==
    /\ main.phase = "restore"
    /\ tree' = [f \in Files |-> FALSE]
    /\ done' = IF tree' = tree THEN done ELSE {}
    /\ last' = NoCall
    /\ main' = [main EXCEPT !.phase = "done"]
    /\ UNCHANGED <<db, head, enableFileCache, hist, coldSnap>>

MainNext ==
    \/ MainSaveRepository
    \/ MainIndexHistory
    \/ MainProcessCommit
    \/ MainMutate
    \/ MainRestore

MainSpec == MainInit /\ [][MainNext]_vars

(***************************************************************************)
(* Decisions: over the store of a repository of two commits, indexed and   *)
(* processed in any order and any number of times, decision records are    *)
(* created (in this repository and in another one) and linked to code      *)
(* elements.  The service is built with the constructor's default for the  *)
(* file cache.                                                             *)
(***************************************************************************)
OtherRepoPath == <<"work", "docs">>

RepoPaths == {RepoPath, OtherRepoPath}

Titles == {"Use X"}

\* a content is the pieces of its text
Contents == {<<"We use X">>}

Authors == {NULL, generateDevId("ana@arc.dev")}

\* the elements a decision is linked to: the function of src/util.ts, the
\* class of the index.ts files, and the file element of a file that is gone
LinkTargets ==
    {parseFile(FullPath(fU), RepoId)[2].elementId,
     parseFile(FullPath(fA), RepoId)[2].elementId,
     parseFile(FullPath(fOld), RepoId)[1].elementId}

DecisionInit ==
    /\ db = EmptyDb
    /\ tree = [f \in Files |-> FALSE]
    /\ head = 2
    /\ enableFileCache = FALSE
    /\ hist \in Histories
    /\ done = {}
    /\ last = NoCall
    /\ main = MainOff
    /\ coldSnap = EmptyDb

SaveAnyRepository ==
    \E p \in RepoPaths :
        /\ db' = saveRepository(db, [repoId |-> Sha256(p), path |-> p, name |-> Basename(p)]).db
        /\ last' = NoCall
        /\ UNCHANGED <<tree, head, enableFileCache, hist, main, coldSnap, done>>

CreateDecisionRecord ==
    \E title \in Titles, content \in Contents, p \in RepoPaths,
       authorDevId \in Authors, now \in 1..MaxClock :
        LET r == createDecisionRecord(db, title, content, Sha256(p), authorDevId, now)
        IN /\ db' = r.db
           /\ last' = [op |-> "createDecisionRecord", err |-> r.err, decision |-> r.decision,
                       again |-> getDecisionRecord(db, r.decision.decisionId) # NULL]
           /\ UNCHANGED <<tree, head, enableFileCache, hist, main, coldSnap, done>>

LinkDecisionToElement ==
    \E title \in Titles, elementId \in LinkTargets, tieAsc \in BOOLEAN :
        LET decisionId == generateDecisionId(RepoId, title)
            r == linkDecisionToElement(db, decisionId, elementId, tieAsc)
        IN /\ db' = r.db
           /\ last' = [op |-> "linkDecisionToElement", err |-> r.err,
                       decisionId |-> decisionId, elementId |-> elementId,
                       versionId |-> r.versionId]
           /\ UNCHANGED <<tree, head, enableFileCache, hist, main, coldSnap, done>>

GetArchitectureDiagramData ==
    \E p \in RepoPaths, tieAsc \in BOOLEAN :
        LET r == getArchitectureDiagramData(db, Sha256(p), tieAsc)
        IN /\ last' = [op |-> "getArchitectureDiagramData", repoId |-> Sha256(p),
                       nodes |-> r.nodes, edges |-> r.edges]
           /\ UNCHANGED <<db, tree, head, enableFileCache, hist, main, coldSnap, done>>

DecisionNext ==
    \/ SaveAnyRepository
    \/ IndexCommitHistory
    \/ ProcessCommit
    \/ CreateDecisionRecord
    \/ LinkDecisionToElement
    \/ GetArchitectureDiagramData

DecisionSpec == DecisionInit /\ [][DecisionNext]_vars

(***************************************************************************)
(* DecisionCaptureProvider: the command that captures a decision for the   *)
(* file of the active editor.  The title and the rationale are what the    *)
(* user types; the content of the record is made of both and of the path.  *)
(***************************************************************************)
Rationales == {"", "X is small"}

EditorFiles == {fU, fR}

CaptureInit ==
    /\ db = saveRepository(EmptyDb, [repoId |-> RepoId, path |-> RepoPath,
                                     name |-> RepoName]).db
    /\ tree = [f \in Files |-> FALSE]
    /\ head = 2
    /\ enableFileCache = FALSE
    /\ hist \in Histories
    /\ done = {}
    /\ last = NoCall
    /\ main = MainOff
    /\ coldSnap = EmptyDb

CaptureDecision ==
    \E relativePath \in EditorFiles, title \in Titles, rationale \in Rationales,
       now \in 1..MaxClock, tieAsc \in BOOLEAN :
        LET repoId == Sha256(RepoPath)
            stableIdentifier == relativePath
            elementId == Sha256(<<repoId, <<"file">>, stableIdentifier>>)
            content == <<title, IF rationale = "" THEN "No rationale provided." ELSE rationale,
                         stableIdentifier>>
            r == createDecisionRecord(db, title, content, repoId, NULL, now)
            latestVersion == findLatestCodeElementVersion(r.db, elementId, tieAsc)
            linked == IF r.err \/ latestVersion = NULL
                      THEN [db |-> r.db, err |-> r.err, versionId |-> NULL]
                      ELSE linkDecisionToElement(r.db, r.decision.decisionId, elementId, tieAsc)
        IN /\ db' = linked.db
           /\ last' = [op |-> "captureDecision", err |-> linked.err, decision |-> r.decision,
                       again |-> getDecisionRecord(db, r.decision.decisionId) # NULL,
                       replaced |-> getDecisionRecord(db, r.decision.decisionId)]
           /\ UNCHANGED <<tree, head, enableFileCache, hist, main, coldSnap, done>>

CaptureNext ==
    \/ IndexCommitHistory
    \/ ProcessCommit
    \/ CreateDecisionRecord
    \/ LinkDecisionToElement
    \/ CaptureDecision

CaptureSpec == CaptureInit /\ [][CaptureNext]_vars

(***************************************************************************)
(* Histories read back: traceElementHistory over the stores that the       *)
(* indexing of a repository builds, and over store files found on disk     *)
(* whose version table was written without foreign key enforcement (the    *)
(* pragma holds per connection): versions of one function at some of the   *)
(* commits, each linked to nothing or to the version id of an earlier      *)
(* commit, stored or not.                                                  *)
(***************************************************************************)
HelperElement == parseFile(FullPath(fU), RepoId)[2]

FoundCommits == 1..(NumCommits - 1)

FoundBase ==
    saveCodeElement(
        indexCommitHistory(
            saveRepository(EmptyDb, [repoId |-> RepoId, path |-> RepoPath,
                                     name |-> RepoName]).db,
            NumCommits - 1, "clean", RepoId),
        HelperElement).db

\* link[c] = 0 stands for a null previous_version_id
FoundVersion(c, link) ==
    [versionId |-> generateVersionId(HelperElement.elementId, c),
     elementId |-> HelperElement.elementId,
     commitHash |-> c,
     name |-> getNameFromIdentifier(HelperElement.stableIdentifier),
     previousVersionId |-> IF link[c] = 0 THEN NULL
                           ELSE generateVersionId(HelperElement.elementId, link[c])]

FoundStores ==
    {[FoundBase EXCEPT !.code_element_versions = {FoundVersion(c, link) : c \in S}] :
        S \in SUBSET FoundCommits,
        link \in {l \in [FoundCommits -> 0..(NumCommits - 1)] : \A c \in FoundCommits : l[c] < c}}

TraceInit ==
    /\ \/ db = EmptyDb /\ main = [phase |-> "built", i |-> 0, log |-> <<>>]
       \/ db \in FoundStores /\ main = [phase |-> "found", i |-> 0, log |-> <<>>]
    /\ tree = [f \in Files |-> FALSE]
    /\ head = 2
    /\ enableFileCache = FALSE
    /\ hist \in Histories
    /\ done = {}
    /\ last = NoCall
    /\ coldSnap = EmptyDb

TraceElementHistory ==
    \E elementId \in LinkTargets, tieAsc \in BOOLEAN :
        /\ last' = [op |-> "traceElementHistory", elementId |-> elementId,
                    history |-> traceElementHistory(db, elementId, tieAsc)]
        /\ UNCHANGED <<db, tree, head, enableFileCache, hist, main, coldSnap, done>>

\* the limits the callers pass: none, and small numbers, 0 among them
Limits == {NULL} \cup {<<n>> : n \in 0..MaxLimit}

GetElementCommitHistory ==
    \E elementId \in LinkTargets, limit \in Limits, tieAsc \in BOOLEAN :
        /\ last' = [op |-> "getElementCommitHistory", elementId |-> elementId,
                    limit |-> limit,
                    commits |-> getElementCommitHistory(db, elementId, limit, tieAsc)]
        /\ UNCHANGED <<db, tree, head, enableFileCache, hist, main, coldSnap, done>>

GetElementsModifiedByCommit ==
    \E commitHash \in Commits :
        LET r == getElementsModifiedByCommit(db, commitHash)
        IN /\ last' = [op |-> "getElementsModifiedByCommit", commit |-> commitHash,
                       err |-> r.err, elements |-> r.elements]
           /\ UNCHANGED <<db, tree, head, enableFileCache, hist, main, coldSnap, done>>

TraceNext ==
    \/ main.phase = "built" /\ SaveRepository
    \/ main.phase = "built" /\ IndexCommitHistory
    \/ main.phase = "built" /\ ProcessCommit
    \/ TraceElementHistory
    \/ GetElementCommitHistory
    \/ GetElementsModifiedByCommit

TraceSpec == TraceInit /\ [][TraceNext]_vars

(***************************************************************************)
(* An ingestion run, commit by commit: indexCommitHistory over the log,    *)
(* one pass of its inner loop per step, while the connection of the store  *)
(* is opened (activate does not wait for initializeDatabase) and closed    *)
(* (closeConnection) by other callbacks.  The log may hold a line whose    *)
(* author name has a '|' in it, and the git show of a commit may time out. *)
(***************************************************************************)
LogHistories == Histories \cup {"piped"}

\* processChangedFiles catches what its git show throws, the timeout
\* included, and returns
processChangedFilesThrows(diffTimesOut) == FALSE

\* faulty variant: the error of a commit thrown on, out of the loops
IngestAfterRethrow(m, c, ok, diffTimesOut) ==
    IF ~ok THEN [m EXCEPT !.phase = "threw", !.failed = @ \cup {c}]
    ELSE [m EXCEPT !.i = @ + 1, !.processedCount = @ + 1,
                   !.phase = IF m.i = Len(m.log) THEN "returned" ELSE @]

\* the position of the run after the try block of one commit line: ok is
\* whether its store calls resolved
IngestAfter(m, c, ok, diffTimesOut) ==
    LET caught == ~ok \/ processChangedFilesThrows(diffTimesOut)
    IN [m EXCEPT !.i = @ + 1,
                 !.processedCount = IF caught THEN @ ELSE @ + 1,
                 !.failed = IF caught THEN @ \cup {c} ELSE @,
                 !.timedOut = IF ok /\ diffTimesOut THEN @ \cup {c} ELSE @,
                 !.phase = IF m.i = Len(m.log) THEN "returned" ELSE @]

IngestIdle == [phase |-> "idle", i |-> 0, log |-> <<>>, processedCount |-> 0,
               failed |-> {}, timedOut |-> {}]

IngestInit ==
    /\ db = [EmptyDb EXCEPT !.open = FALSE]
    /\ tree = [f \in Files |-> FALSE]
    /\ head \in Commits
    /\ enableFileCache = FALSE
    /\ hist \in LogHistories
    /\ done = {}
    /\ last = NoCall
    /\ main = IngestIdle
    /\ coldSnap = EmptyDb

\* initializeDatabase resolves: the connection is there, the tables are kept
InitializeDatabase ==
    /\ ~db.open
    /\ db' = [db EXCEPT !.open = TRUE]
    /\ UNCHANGED <<tree, head, enableFileCache, hist, main, coldSnap, done, last>>

CloseConnection ==
    /\ db.open
    /\ db' = [db EXCEPT !.open = FALSE]
    /\ UNCHANGED <<tree, head, enableFileCache, hist, main, coldSnap, done, last>>

\* indexCommitHistory is called: git log is read
IngestStart ==
    /\ main.phase \in {"idle", "returned"}
    /\ main' = [IngestIdle EXCEPT !.phase = "running", !.i = 1, !.log = GitLog(head)]
    /\ UNCHANGED <<db, tree, head, enableFileCache, hist, coldSnap, done, last>>

\* one commit line of the log goes through the try block
IngestCommit ==
    /\ main.phase = "running"
    /\ \E diffTimesOut \in BOOLEAN :
          LET c == main.log[main.i]
              r == IndexOneCommit(db, hist, c, RepoId)
          IN /\ db' = r.db
             /\ main' = IngestAfter(main, c, r.ok, diffTimesOut)
    /\ UNCHANGED <<tree, head, enableFileCache, hist, coldSnap, done, last>>

IngestNext ==
    \/ SaveRepository
    \/ InitializeDatabase
    \/ CloseConnection
    \/ IngestStart
    \/ IngestCommit

IngestSpec == IngestInit /\ [][IngestNext]_vars

(***************************************************************************)
(* processCommit write by write: every store call of processCommit is      *)
(* awaited, and between two of them a query of another callback (the       *)
(* hover, the diagram) may read the store.  The store holds the repository *)
(* and the commits of the log; main is the position of the call in         *)
(* progress (the changed file, the element of it, the store call that      *)
(* comes next) and coldSnap the store the call began with.                 *)
(***************************************************************************)
StepIdle == [phase |-> "idle", commit |-> 0, f |-> 0, e |-> 0, pc |-> "none"]

StepInit ==
    /\ hist \in Histories
    /\ head = 2
    /\ db = indexCommitHistory(
                saveRepository(EmptyDb, [repoId |-> RepoId, path |-> RepoPath,
                                         name |-> RepoName]).db,
                head, hist, RepoId)
    /\ tree = [f \in Files |-> FALSE]
    /\ enableFileCache \in BOOLEAN
    /\ done = {}
    /\ last = NoCall
    /\ main = StepIdle
    /\ coldSnap = EmptyDb

\* the next changed file, from the f-th on, that passes the size test, the
\* extension test and the file-cache test against the store as it is
RECURSIVE NextFile(_, _, _, _, _)
NextFile(d, changedFiles, f, cache, wt) ==
    IF f > Len(changedFiles) THEN f
    ELSE LET fullPath == FullPath(changedFiles[f])
         IN IF \/ StatSize(fullPath) < 0
               \/ StatSize(fullPath) > MAX_FILE_SIZE_BYTES
               \/ ~canParseFile(fullPath)
               \/ CacheHit(cache, getFileHash(d, RepoId, fullPath),
                           ContentHash(wt, changedFiles[f]))
            THEN NextFile(d, changedFiles, f + 1, cache, wt)
            ELSE f

\* the position of the call at the f-th changed file or the next that is parsed
EnterFile(d, commitHash, f, h, cache, wt) ==
    LET g == NextFile(d, ChangedFiles(h, commitHash), f, cache, wt)
    IN IF g > Len(ChangedFiles(h, commitHash)) THEN StepIdle
       ELSE [phase |-> "call", commit |-> commitHash, f |-> g, e |-> 1, pc |-> "element"]

\* processCommit is called for a commit of the repository and runs up to its
\* first store write (a call that writes nothing returns at once)
BeginProcessCommit ==
    \E commitHash \in Commits :
        /\ main.phase = "idle"
        /\ gitGetCommit(head, hist, commitHash) # NULL
        /\ main' = EnterFile(db, commitHash, 1, hist, enableFileCache, tree)
        /\ coldSnap' = db
        /\ last' = NoCall
        /\ UNCHANGED <<db, tree, head, enableFileCache, hist, done>>

\* the next store write of the call, with the reads that lead to it, and the
\* tests of the loops up to the write after it; a write that rejects ends
\* the call
ProcessCommitStep ==
    /\ main.phase = "call"
    /\ \E tieAsc \in BOOLEAN :
          LET commitHash == main.commit
              filePath == ChangedFiles(hist, commitHash)[main.f]
              fullPath == FullPath(filePath)
              codeElements == parseFile(fullPath, RepoId)
              element == codeElements[main.e]
              version == [versionId |-> generateVersionId(element.elementId, commitHash),
                          elementId |-> element.elementId,
                          commitHash |-> commitHash,
                          name |-> getNameFromIdentifier(element.stableIdentifier),
                          previousVersionId |-> NULL]
              previousVersions ==
                  getPreviousVersions(db, element.elementId, commitHash, tieAsc)
              r == CASE main.pc = "element" -> saveCodeElement(db, element)
                     [] main.pc = "version" -> saveCodeElementVersion(db, version)
                     [] main.pc = "link" ->
                            IF Len(previousVersions) > 0
                            THEN linkVersionToPreviousVersion(db, version.versionId,
                                                              previousVersions[1].versionId)
                            ELSE [db |-> db, ok |-> TRUE]
                     [] OTHER -> saveFileHash(db, RepoId, fullPath,
                                              ContentHash(tree, filePath))
              nextFile == EnterFile(r.db, commitHash, main.f + 1, hist, enableFileCache, tree)
          IN /\ db' = r.db
             /\ main' = IF ~r.ok THEN StepIdle
                        ELSE CASE main.pc = "element" -> [main EXCEPT !.pc = "version"]
                               [] main.pc = "version" -> [main EXCEPT !.pc = "link"]
                               [] main.pc = "link" ->
                                      IF main.e < Len(codeElements)
                                      THEN [main EXCEPT !.e = @ + 1, !.pc = "element"]
                                      ELSE IF enableFileCache
                                      THEN [main EXCEPT !.pc = "hash"]
                                      ELSE nextFile
                               [] OTHER -> nextFile
    /\ last' = NoCall
    /\ UNCHANGED <<tree, head, enableFileCache, hist, coldSnap, done>>

StepNext ==
    \/ BeginProcessCommit
    \/ ProcessCommitStep
    \/ TraceElementHistory

StepSpec == StepInit /\ [][StepNext]_vars

(***************************************************************************)
(* indexCommitHistory write by write.  A run is at a line of its log and at *)
(* the store call that comes next; events lists the store calls it has     *)
(* issued, the waits of setTimeout and the memory checks, in order.        *)
(***************************************************************************)
batchSize == 10

RunOff == [pc |-> "off", i |-> 0, log |-> <<>>, memoryMonitor |-> FALSE,
           emergencies |-> 0, events |-> <<>>]

\* indexCommitHistory is called: git log is read; memoryMonitor is whether
\* global.memoryMonitor is there
StartRun(n, memoryMonitor, events) ==
    [pc |-> IF n = 0 THEN "returned" ELSE "author", i |-> 1, log |-> GitLog(n),
     memoryMonitor |-> memoryMonitor, emergencies |-> 0, events |-> events]

\* faulty variant: the wait between two batches only, none after the last
EndOfBatchBetween(i, n) == i % batchSize = 0 /\ i < n

\* the i-th line of n is the last of its batch
EndOfBatch(i, n) == i % batchSize = 0 \/ i = n

\* the run leaves the try block of its line
NextLine(run) ==
    [run EXCEPT !.i = @ + 1,
                !.pc = IF EndOfBatch(run.i, Len(run.log)) THEN "yield" ELSE "author"]

\* the next await of the run resolves: a store call of the line, or the
\* setTimeout after a batch with the memory check behind it, which above
\* the emergency threshold closes the connection (optimizeMemoryAggressively)
IndexStep(d, h, run, repoId, emergency) ==
    LET c == run.log[run.i]
        authorEmail == LogLine(h, c)[3][2]
        committerEmail == LogLine(h, c)[5][2]
        r == CASE run.pc = "author" ->
                    saveDeveloper(d, [devId |-> generateDevId(authorEmail),
                                      email |-> authorEmail])
               [] run.pc = "committer" ->
                    saveDeveloper(d, [devId |-> generateDevId(committerEmail),
                                      email |-> committerEmail])
               [] run.pc = "commit" -> saveCommit(d, CommitOfLine(h, c, repoId))
               [] OTHER ->
                    [db |-> [d EXCEPT !.open = @ /\ ~(run.memoryMonitor /\ emergency)],
                     ok |-> TRUE]
        issued == CASE run.pc \in {"author", "committer"} -> <<<<"saveDeveloper", c>>>>
                    [] run.pc = "commit" -> <<<<"saveCommit", c>>>>
                    [] OTHER -> <<<<"yield", 0>>>> \o
                                (IF run.memoryMonitor THEN <<<<"checkMemoryUsage", 0>>>>
                                 ELSE <<>>)
        told == [run EXCEPT !.events = @ \o issued]
    IN [db |-> r.db,
        run |-> CASE run.pc = "author" ->
                       IF ~r.ok THEN NextLine(told)
                       ELSE [told EXCEPT !.pc = IF authorEmail # committerEmail
                                                THEN "committer" ELSE "commit"]
                  [] run.pc = "committer" ->
                       IF ~r.ok THEN NextLine(told) ELSE [told EXCEPT !.pc = "commit"]
                  [] run.pc = "commit" -> NextLine(told)
                  [] OTHER ->
                       [told EXCEPT !.pc = IF run.i > Len(run.log) THEN "returned"
                                           ELSE "author",
                                    !.emergencies = IF run.memoryMonitor /\ emergency
                                                    THEN @ + 1 ELSE @]]

(***************************************************************************)
(* The command arc.indexRepository, invoked from the palette or from the   *)
(* 'Try Again' button: two invocations a and b on the one store of the     *)
(* extension, each between its awaits.  The memory stays below the         *)
(* emergency threshold.                                                    *)
(***************************************************************************)
Invocations == {"a", "b"}

CommandInit ==
    /\ db = EmptyDb
    /\ tree = [f \in Files |-> FALSE]
    /\ head = 2
    /\ enableFileCache = TRUE
    /\ hist \in LogHistories
    /\ done = {}
    /\ last = NoCall
    /\ main = [k \in Invocations |-> RunOff]
    /\ coldSnap = EmptyDb

\* the command is invoked and the user authorizes the indexing
InvokeCommand ==
    \E k \in Invocations :
        /\ main[k].pc \in {"off", "returned"}
        /\ main' = [main EXCEPT ![k] = [RunOff EXCEPT !.pc = "saveRepository"]]
        /\ UNCHANGED <<db, tree, head, enableFileCache, hist, coldSnap, done, last>>

\* the next await of an invocation resolves: saveRepository, after which
\* indexCommitHistory reads the log, or an await of indexCommitHistory
CommandStep ==
    \E k \in Invocations :
        /\ main[k].pc \notin {"off", "returned"}
        /\ LET saved == saveRepository(db, [repoId |-> RepoId, path |-> RepoPath,
                                            name |-> RepoName])
               r == IF main[k].pc = "saveRepository"
                    THEN [db |-> saved.db,
                          run |-> IF saved.ok
                                  THEN StartRun(head, TRUE, <<<<"saveRepository", 0>>>>)
                                  ELSE [main[k] EXCEPT !.pc = "returned"]]
                    ELSE IndexStep(db, hist, main[k], RepoId, FALSE)
           IN /\ db' = r.db
              /\ main' = [main EXCEPT ![k] = r.run]
        /\ UNCHANGED <<tree, head, enableFileCache, hist, coldSnap, done, last>>

CommandNext ==
    \/ InvokeCommand
    \/ CommandStep

CommandSpec == CommandInit /\ [][CommandNext]_vars

(***************************************************************************)
(* One run of indexCommitHistory over logs of up to MaxLogLen lines, with  *)
(* the memory monitor registered (the extension) or not (the service used  *)
(* alone, or after deactivate has deleted global.memoryMonitor).  A check  *)
(* that closes the connection is followed by initializeDatabase.           *)
(***************************************************************************)
BatchInit ==
    /\ db = saveRepository(EmptyDb, [repoId |-> RepoId, path |-> RepoPath,
                                     name |-> RepoName]).db
    /\ tree = [f \in Files |-> FALSE]
    /\ head \in 1..MaxLogLen
    /\ enableFileCache = TRUE
    /\ hist \in LogHistories
    /\ done = {}
    /\ last = NoCall
    /\ main \in {[RunOff EXCEPT !.memoryMonitor = m] : m \in BOOLEAN}
    /\ coldSnap = EmptyDb

BatchStart ==
    /\ main.pc = "off"
    /\ main' = StartRun(head, main.memoryMonitor, <<>>)
    /\ UNCHANGED <<db, tree, head, enableFileCache, hist, coldSnap, done, last>>

BatchStep ==
    /\ main.pc \notin {"off", "returned"}
    /\ \E emergency \in BOOLEAN :
          /\ emergency => main.emergencies < MaxEmergencies
          /\ LET r == IndexStep(db, hist, main, RepoId, emergency)
             IN db' = r.db /\ main' = r.run
    /\ UNCHANGED <<tree, head, enableFileCache, hist, coldSnap, done, last>>

BatchNext ==
    \/ BatchStart
    \/ BatchStep
    \/ InitializeDatabase

BatchSpec == BatchInit /\ [][BatchNext]_vars

(***************************************************************************)
(* MemoryMonitor: checkMemoryUsage on the timer of startMonitoring and     *)
(* after the batches of a run, against the store of the extension          *)
(* (global.persistenceService), while the store is written by the other    *)
(* callbacks.  main is the monitor: the time of its last warning, the      *)
(* clock, whether a warning with the button 'Optimize Memory' is showing   *)
(* and whether a closeConnection has an initializeDatabase waiting behind  *)
(* it.  A check is told by what it asks of the window and of the store.    *)
(***************************************************************************)
memoryWarningThreshold == 150

memoryLimitThreshold == 180

memoryEmergencyThreshold == 250

warningCooldown == 60000

\* process.memoryUsage().rss in MB, rounded: around each threshold
Samples == {memoryWarningThreshold, memoryWarningThreshold + 1,
            memoryLimitThreshold, memoryLimitThreshold + 1,
            memoryEmergencyThreshold, memoryEmergencyThreshold + 1}

\* Date.now() at the ticks of the timer
Times == {100000 + 30000 * k : k \in 0..MaxTicks}

closeConnection(d) == [d EXCEPT !.open = FALSE]

\* faulty variant: the tables made anew
initializeDatabaseAnew(d) == EmptyDb

\* new BetterSQLite3(dbPath) on the file of the store, CREATE TABLE IF NOT EXISTS
initializeDatabase(d) == [d EXCEPT !.open = TRUE]

\* what clearCaches asks of the connection, when there is one; no row changes
clearCaches(d) == IF d.open THEN <<"shrink_memory", "VACUUM">> ELSE <<>>

\* faulty variant: the notification alone
optimizeMemoryQuietly(d) == <<"showInformationMessage">>

optimizeMemory(d) == <<"clearCaches">> \o clearCaches(d) \o <<"showInformationMessage">>

\* faulty variant: the connection left as it is
optimizeMemoryAggressivelyOpen(d) ==
    [db |-> d, reopening |-> FALSE,
     asked |-> <<"clearCaches">> \o clearCaches(d) \o <<"showWarningMessage">>]

optimizeMemoryAggressively(d) ==
    [db |-> closeConnection(d), reopening |-> TRUE,
     asked |-> <<"clearCaches">> \o clearCaches(d)
               \o <<"closeConnection", "showWarningMessage">>]

MonitorOff == [lastWarningTime |-> 0, now |-> 0, offered |-> FALSE, reopening |-> FALSE]

checkMemoryUsage(d, m, rssUsedMB, now) ==
    LET warns == rssUsedMB > memoryWarningThreshold
                 /\ now - m.lastWarningTime > warningCooldown
        limit == rssUsedMB > memoryLimitThreshold
        emergency == rssUsedMB > memoryEmergencyThreshold
        aggressive == optimizeMemoryAggressively(d)
    IN [db |-> IF emergency THEN aggressive.db ELSE d,
        monitor |-> [lastWarningTime |-> IF warns THEN now ELSE m.lastWarningTime,
                     now |-> now,
                     offered |-> m.offered \/ warns,
                     reopening |-> m.reopening \/ (emergency /\ aggressive.reopening)],
        asked |-> (IF warns THEN <<"showWarningMessage">> ELSE <<>>)
                  \o (IF limit THEN optimizeMemory(d) ELSE <<>>)
                  \o (IF emergency THEN <<"showErrorMessage">> \o aggressive.asked
                      ELSE <<>>)]

MonitorCall(op, rssUsedMB, wasOpen, asked) ==
    [op |-> op, rssUsedMB |-> rssUsedMB, wasOpen |-> wasOpen, asked |-> asked]

MonitorInit ==
    /\ db \in {EmptyDb, closeConnection(EmptyDb)}
    /\ tree = [f \in Files |-> FALSE]
    /\ head = 1
    /\ enableFileCache = FALSE
    /\ hist = "clean"
    /\ done = {}
    /\ last = NoCall
    /\ main = MonitorOff
    /\ coldSnap = EmptyDb

CheckMemoryUsage ==
    \E rssUsedMB \in Samples, now \in Times :
        /\ now >= main.now
        /\ LET r == checkMemoryUsage(db, main, rssUsedMB, now)
           IN /\ db' = r.db
              /\ main' = r.monitor
              /\ last' = MonitorCall("checkMemoryUsage", rssUsedMB, db.open, r.asked)
        /\ UNCHANGED <<tree, head, enableFileCache, hist, coldSnap, done>>

\* the user picks 'Optimize Memory' on the warning
ChooseOptimizeMemory ==
    /\ main.offered
    /\ main' = [main EXCEPT !.offered = FALSE]
    /\ last' = MonitorCall("optimizeMemory", 0, db.open, optimizeMemory(db))
    /\ UNCHANGED <<db, tree, head, enableFileCache, hist, coldSnap, done>>

\* closeConnection has resolved: initializeDatabase runs
ReopenConnection ==
    /\ main.reopening
    /\ db' = initializeDatabase(db)
    /\ main' = [main EXCEPT !.reopening = FALSE]
    /\ last' = MonitorCall("initializeDatabase", 0, db.open, <<>>)
    /\ UNCHANGED <<tree, head, enableFileCache, hist, coldSnap, done>>

MonitorNext ==
    \/ CheckMemoryUsage
    \/ ChooseOptimizeMemory
    \/ ReopenConnection
    \/ SaveRepository
    \/ IndexCommitHistory
    \/ ProcessCommit

MonitorSpec == MonitorInit /\ [][MonitorNext]_vars

(***************************************************************************)
(* The store called directly, as its test suites call it: repository       *)
(* records of two workspaces under the names the workspace folders have    *)
(* had, the commits of a log of two commits, and parent edges between      *)
(* commit hashes, those of commits the store does not hold included.       *)
(* main.saved is the record each repoId was last saved with.               *)
(***************************************************************************)
FolderNames(p) == {Basename(p)[1], "renamed"}

StoreInit ==
    /\ db = EmptyDb
    /\ tree = [f \in Files |-> FALSE]
    /\ head = 2
    /\ enableFileCache = FALSE
    /\ hist = "clean"
    /\ done = {}
    /\ last = NoCall
    /\ main = [phase |-> "store", saved |-> {}]
    /\ coldSnap = EmptyDb

SaveNamedRepository ==
    \E p \in RepoPaths : \E name \in FolderNames(p) :
        LET repository == [repoId |-> Sha256(p), path |-> p, name |-> <<name>>]
            r == saveRepository(db, repository)
        IN /\ db' = r.db
           /\ main' = [main EXCEPT !.saved =
                           {x \in @ : x.repoId # repository.repoId} \cup {repository}]
           /\ last' = [op |-> "saveRepository", err |-> ~r.ok, repository |-> repository,
                       again |-> getRepository(db, repository.repoId) # NULL]
           /\ UNCHANGED <<tree, head, enableFileCache, hist, coldSnap, done>>

SaveCommitParent ==
    \E commitHash \in Commits, parentHash \in Commits :
        LET r == saveCommitParent(db, commitHash, parentHash)
        IN /\ db' = r.db
           /\ last' = [op |-> "saveCommitParent", err |-> ~r.ok, commit |-> commitHash,
                       parent |-> parentHash,
                       again |-> \E i \in 1..Len(getCommitParents(db, commitHash)) :
                                    getCommitParents(db, commitHash)[i] = parentHash]
           /\ UNCHANGED <<tree, head, enableFileCache, hist, main, coldSnap, done>>

StoreNext ==
    \/ SaveNamedRepository
    \/ IndexCommitHistory
    \/ SaveCommitParent

StoreSpec == StoreInit /\ [][StoreNext]_vars

(***************************************************************************)
(* The git service asked for commits next to the indexing of the           *)
(* repository: last holds the Commit values it returned.                   *)
(***************************************************************************)
GitInit ==
    /\ db = EmptyDb
    /\ tree = [f \in Files |-> FALSE]
    /\ head = 1
    /\ enableFileCache = FALSE
    /\ hist \in Histories
    /\ done = {}
    /\ last = NoCall
    /\ main = MainOff
    /\ coldSnap = EmptyDb

GitGetCommit ==
    \E commitHash \in Commits :
        LET commit == gitGetCommit(head, hist, commitHash)
        IN /\ last' = [op |-> "getCommit", repoPath |-> RepoPath,
                       commits |-> IF commit = NULL THEN <<>> ELSE <<commit>>]
           /\ UNCHANGED <<db, tree, head, enableFileCache, hist, main, coldSnap, done>>

GitGetCommitsForFile ==
    \E filePath \in Files, limit \in Limits :
        /\ last' = [op |-> "getCommitsForFile", repoPath |-> RepoPath,
                    commits |-> getCommitsForFile(head, hist, filePath, limit)]
        /\ UNCHANGED <<db, tree, head, enableFileCache, hist, main, coldSnap, done>>

GitNext ==
    \/ SaveRepository
    \/ IndexCommitHistory
    \/ GitCommit
    \/ GitGetCommit
    \/ GitGetCommitsForFile

GitSpec == GitInit /\ [][GitNext]_vars

(***************************************************************************)
(* The methods of the store called one by one while the connection comes   *)
(* and goes: initializeDatabase may have failed or not yet run, and        *)
(* closeConnection is called by deactivate and by the memory monitor.      *)
(* last tells the call: whether the connection was there, the store before *)
(* it, whether it rejected and what it resolved with.                      *)
(***************************************************************************)
StoreWrites == {"saveRepository", "saveDeveloper", "saveCommit", "saveCodeElement",
                "saveCodeElementVersion", "linkVersionToPreviousVersion", "saveFileHash",
                "saveDecisionRecord", "linkDecisionToCodeVersion", "saveCommitParent"}

StoreReads == {"getRepository", "getRepositoryIds", "getCommit", "getAllCodeElements",
               "getCodeElementVersion", "getCodeElementVersions",
               "findLatestCodeElementVersion", "getCommitHistoryForElementId",
               "getFileHash", "getDecisionRecord", "findDecisionRecordsLinkedToVersion",
               "getCommitParents", "getCommitChildren"}

\* faulty variant: the rows read whether the connection is there or not
QueryAnyway(d, rows) == [err |-> FALSE, value |-> rows]

\* a read: if (!this.db) reject(new Error('Database not initialized'))
Query(d, rows) ==
    IF d.open THEN [err |-> FALSE, value |-> rows] ELSE [err |-> TRUE, value |-> NULL]

AbsentInit ==
    /\ db \in {EmptyDb, closeConnection(EmptyDb)}
    /\ tree = [f \in Files |-> FALSE]
    /\ head = 2
    /\ enableFileCache = FALSE
    /\ hist = "clean"
    /\ done = {}
    /\ last = NoCall
    /\ main = [phase |-> "absent"]
    /\ coldSnap = EmptyDb

WriteStore ==
    \E w \in StoreWrites, c \in 1..head, title \in Titles, content \in Contents :
        LET version == FoundVersion(c, [k \in FoundCommits |-> 0])
            decision == createDecisionRecord(db, title, content, RepoId, NULL, 1)
            r == CASE w = "saveRepository" ->
                        saveRepository(db, [repoId |-> RepoId, path |-> RepoPath,
                                            name |-> RepoName])
                   [] w = "saveDeveloper" ->
                        saveDeveloper(db, [devId |-> generateDevId(AuthorEmail(c)),
                                           email |-> AuthorEmail(c)])
                   [] w = "saveCommit" -> saveCommit(db, CommitOfLine(hist, c, RepoId))
                   [] w = "saveCodeElement" -> saveCodeElement(db, HelperElement)
                   [] w = "saveCodeElementVersion" -> saveCodeElementVersion(db, version)
                   [] w = "linkVersionToPreviousVersion" ->
                        linkVersionToPreviousVersion(
                            db, version.versionId,
                            generateVersionId(HelperElement.elementId, 1))
                   [] w = "saveFileHash" ->
                        saveFileHash(db, RepoId, FullPath(fU), ContentHash(tree, fU))
                   [] w = "saveDecisionRecord" -> [db |-> decision.db, ok |-> ~decision.err]
                   [] w = "linkDecisionToCodeVersion" ->
                        linkDecisionToCodeVersion(db, generateDecisionId(RepoId, title),
                                                  version.versionId)
                   [] OTHER -> saveCommitParent(db, c, 1)
        IN /\ db' = r.db
           /\ last' = [op |-> w, wasOpen |-> db.open, before |-> db, err |-> ~r.ok,
                       value |-> NULL]
           /\ UNCHANGED <<tree, head, enableFileCache, hist, main, coldSnap, done>>

ReadStore ==
    \E q \in StoreReads, c \in 1..head, title \in Titles, tieAsc \in BOOLEAN :
        LET elementId == HelperElement.elementId
            versionId == generateVersionId(elementId, c)
            r == Query(db,
                   CASE q = "getRepository" -> getRepository(db, RepoId)
                     [] q = "getRepositoryIds" -> getRepositoryIds(db)
                     [] q = "getCommit" -> getCommit(db, c)
                     [] q = "getAllCodeElements" -> getAllCodeElements(db, RepoId)
                     [] q = "getCodeElementVersion" -> getCodeElementVersion(db, versionId)
                     [] q = "getCodeElementVersions" ->
                          getCodeElementVersions(db, elementId, c)
                     [] q = "findLatestCodeElementVersion" ->
                          findLatestCodeElementVersion(db, elementId, tieAsc)
                     [] q = "getCommitHistoryForElementId" ->
                          getCommitHistoryForElementId(db, elementId, NULL, tieAsc)
                     [] q = "getFileHash" -> getFileHash(db, RepoId, FullPath(fU))
                     [] q = "getDecisionRecord" ->
                          getDecisionRecord(db, generateDecisionId(RepoId, title))
                     [] q = "findDecisionRecordsLinkedToVersion" ->
                          findDecisionRecordsLinkedToVersion(db, versionId)
                     [] q = "getCommitParents" -> getCommitParents(db, c)
                     [] OTHER -> getCommitChildren(db, c))
        IN /\ last' = [op |-> q, wasOpen |-> db.open, before |-> db, err |-> r.err,
                       value |-> r.value]
           /\ UNCHANGED <<db, tree, head, enableFileCache, hist, main, coldSnap, done>>

\* closeConnection, whether there is a connection or not: it resolves
CallCloseConnection ==
    /\ db' = closeConnection(db)
    /\ last' = [op |-> "closeConnection", wasOpen |-> db.open, before |-> db,
                err |-> FALSE, value |-> NULL]
    /\ UNCHANGED <<tree, head, enableFileCache, hist, main, coldSnap, done>>

AbsentNext ==
    \/ WriteStore
    \/ ReadStore
    \/ CallCloseConnection
    \/ InitializeDatabase

AbsentSpec == AbsentInit /\ [][AbsentNext]_vars

(***************************************************************************)
(* Properties.  Vocabulary first: the timestamp of a stored version is the *)
(* commit_timestamp of its commit row; the key of an element is what the   *)
(* spec identifies it by.                                                  *)
(***************************************************************************)
TimestampOf(d, v) == getCommit(d, v.commitHash).timestamp

SameKey(e1, e2) ==
    /\ e1.repoId = e2.repoId
    /\ e1.type = e2.type
    /\ e1.stableIdentifier = e2.stableIdentifier

\* the files of a commit that pass the size and the extension test
EligibleFiles(h, c) ==
    {f \in SourceFiles : \E i \in 1..Len(ChangedFiles(h, c)) : ChangedFiles(h, c)[i] = f}

\* the commits of the log that changed a file
Touching(h, n, f) ==
    {c \in 1..n : \E i \in 1..Len(ChangedFiles(h, c)) : ChangedFiles(h, c)[i] = f}

VersionKeys(d) ==
    {<<v.versionId, v.elementId, v.commitHash>> : v \in d.code_element_versions}

\* C1: saving a code element is idempotent per (repoId, type, stableIdentifier):
\* whenever processCommit saves an element, a row the store already holds for
\* the same (repoId, type, stableIdentifier) has the same elementId, and a call
\* that completes leaves exactly one row for it.
C1_SaveCodeElementIdempotent ==
    [][\A s \in last'.saved :
          /\ \A e \in db.code_elements :
                SameKey(e, s.element) => e.elementId = s.element.elementId
          /\ ~last'.err =>
                Cardinality({e \in db'.code_elements : SameKey(e, s.element)}) = 1]_vars

\* C2: in every store state reached by processCommit calls in any order, with
\* repeats, a version with a previousVersionId points to a stored version of
\* the same element with a strictly smaller commit timestamp; the walk along
\* previousVersionId from any version visits strictly decreasing timestamps,
\* repeats no versionId and ends at a null link.
C2_PreviousLinksDecrease ==
    \A v \in db.code_element_versions :
        /\ v.previousVersionId # NULL =>
              \E p \in db.code_element_versions :
                  /\ p.versionId = v.previousVersionId
                  /\ p.elementId = v.elementId
                  /\ TimestampOf(db, p) < TimestampOf(db, v)
        /\ LET walk == <<v>> \o FollowPrevious(db, v, Cardinality(db.code_element_versions))
           IN /\ walk[Len(walk)].previousVersionId = NULL
              /\ \A i, j \in 1..Len(walk) :
                    i < j => /\ walk[i].versionId # walk[j].versionId
                             /\ TimestampOf(db, walk[j]) < TimestampOf(db, walk[i])

\* a chain of three versions, written by calls of which the last was a repeat
C2_Witness ==
    /\ last.op = "processCommit" /\ last.redo
    /\ \E v, p \in db.code_element_versions :
          /\ v.previousVersionId = p.versionId
          /\ p.previousVersionId # NULL

\* C3: after a processCommit call, each version it wrote for commit c has as
\* previousVersionId a stored version of the same element whose commit
\* timestamp is the greatest among those strictly below c's, and null when
\* there is none; a version with c's timestamp is never chosen.
C3_LinksGreatestEarlier ==
    last.op = "processCommit" =>
        \A w \in last.written :
            LET v == getCodeElementVersion(db, w.versionId)
                earlier == {p \in db.code_element_versions :
                               /\ p.elementId = v.elementId
                               /\ TimestampOf(db, p) < TimestampOf(db, v)}
            IN /\ v.commitHash = last.commit
               /\ IF earlier = {} THEN v.previousVersionId = NULL
                  ELSE \E p \in earlier :
                          /\ p.versionId = v.previousVersionId
                          /\ \A q \in earlier : TimestampOf(db, q) <= TimestampOf(db, p)

\* a written version linked to the later of two earlier versions
C3_Witness ==
    /\ last.op = "processCommit"
    /\ \E w \in last.written :
          LET v == getCodeElementVersion(db, w.versionId)
          IN /\ v.previousVersionId # NULL
             /\ \E q \in db.code_element_versions :
                   /\ q.elementId = v.elementId
                   /\ TimestampOf(db, q) <
                         TimestampOf(db, getCodeElementVersion(db, v.previousVersionId))

\* C4: once the cold index of the benchmark has run over a log whose commits
\* have strictly increasing timestamps, an element of a file changed by the
\* commits c1..cn has exactly one version per ci and no other, each version
\* but the first has the version of the commit before it as previousVersionId,
\* the first has null, and traceElementHistory returns them newest first.
C4_IndexedHistoryIsChained ==
    (main.phase = "mutate" /\ hist = "clean") =>
        \A f \in {g \in SourceFiles : Touching(hist, head, g) # {}} :
        \A k \in 1..Len(parseFile(FullPath(f), RepoId)) :
            LET e == parseFile(FullPath(f), RepoId)[k]
                touching == Touching(hist, head, f)
                versions == {v \in db.code_element_versions : v.elementId = e.elementId}
                at(c) == getCodeElementVersions(db, e.elementId, c)
            IN /\ {v.commitHash : v \in versions} = touching
               /\ Cardinality(versions) = Cardinality(touching)
               /\ \A c \in touching :
                     LET before == {b \in touching : b < c}
                     IN IF before = {} THEN at(c).previousVersionId = NULL
                        ELSE at(c).previousVersionId =
                                at(CHOOSE b \in before : \A x \in before : x <= b).versionId
               /\ \A tieAsc \in BOOLEAN :
                     LET trace == traceElementHistory(db, e.elementId, tieAsc)
                     IN /\ Len(trace) = Cardinality(touching)
                        /\ \A i \in 1..Len(trace) :
                              /\ trace[i].commitHash \in touching
                              /\ i < Len(trace) =>
                                    trace[i].commitHash > trace[i + 1].commitHash

\* C5: whenever processCommit writes a version of an element at commit c, the
\* store holds no version of that element with a commit timestamp above c's.
C5_AscendingPerElement ==
    last.op = "processCommit" =>
        \A w \in last.written :
            LET v == getCodeElementVersion(db, w.versionId)
            IN \A p \in db.code_element_versions :
                  p.elementId = v.elementId => TimestampOf(db, p) <= TimestampOf(db, v)

\* C6: a processCommit for a commit whose Commit row is stored and for which
\* a processCommit has completed before adds no Commit row, no CodeElement
\* row and no CodeElementVersion row; the store then holds exactly one Commit
\* row for the commit and one version row per (elementId, commitHash).
C6_ReprocessAddsNoRow ==
    [][(last'.op = "processCommit" /\ last'.redo) =>
          /\ db'.commits = db.commits
          /\ db'.code_elements = db.code_elements
          /\ VersionKeys(db') = VersionKeys(db)
          /\ Cardinality({c \in db'.commits : c.commitHash = last'.commit}) = 1
          /\ \A v, w \in db'.code_element_versions :
                (v.elementId = w.elementId /\ v.commitHash = w.commitHash) => v = w]_vars

\* a repeated call that wrote versions again, with the file cache off
C6_Witness ==
    /\ last.op = "processCommit" /\ last.redo
    /\ ~last.err
    /\ last.written # {}

\* C7: when the benchmark has run its loop over the log a second time, every
\* row the store held after the first run (commits, elements, versions with
\* their previousVersionId) is held with the same values.
C7_RerunKeepsRows ==
    main.phase \in {"restore", "done"} =>
        /\ coldSnap.commits \subseteq db.commits
        /\ coldSnap.code_elements \subseteq db.code_elements
        /\ coldSnap.code_element_versions \subseteq db.code_element_versions

\* C8: a processCommit that completes for a commit the store did not hold
\* leaves the Commit row of that commit in the store, and every version it
\* wrote is a version of that commit linked to the version that was the
\* latest of its element before the call.
C8_ProcessCommitStoresCommit ==
    [][(last'.op = "processCommit" /\ ~last'.err /\ getCommit(db, last'.commit) = NULL) =>
          /\ getCommit(db', last'.commit) # NULL
          /\ \A w \in last'.written :
                LET v == getCodeElementVersion(db', w.versionId)
                IN /\ v.commitHash = last'.commit
                   /\ \A tieAsc \in BOOLEAN :
                         findLatestCodeElementVersion(db, v.elementId, tieAsc) # NULL =>
                            \E t \in BOOLEAN :
                               v.previousVersionId =
                                  findLatestCodeElementVersion(db, v.elementId, t).versionId]_vars

\* C9: with the file cache on, a changed file whose stored hash equals the
\* hash of its content is not parsed by the call, no element and no version
\* is saved for it and its hash row is not written; every other changed file
\* that passes the size and the extension test is parsed by a call that
\* completes.
C9_CacheSkipWritesNothing ==
    [][(last'.op = "processCommit" /\ enableFileCache) =>
          \A f \in EligibleFiles(hist, last'.commit) :
              IF getFileHash(db, RepoId, FullPath(f)) = ContentHash(tree, f)
              THEN /\ FullPath(f) \notin last'.parsed
                   /\ FullPath(f) \notin last'.cacheWrites
                   /\ \A s \in last'.saved : s.file # FullPath(f)
                   /\ \A w \in last'.written : w.file # FullPath(f)
              ELSE ~last'.err => FullPath(f) \in last'.parsed]_vars

\* a call that skipped one file of the commit and parsed another
C9_Witness ==
    /\ last.op = "processCommit" /\ enableFileCache
    /\ ~last.err
    /\ last.skipped # {}
    /\ last.written # {}

\* C10: with the file cache off, processCommit neither reads nor writes the
\* file_hashes table and skips no file for its hash; a call that completes
\* has parsed every changed file that passes the size and the extension test
\* and the store holds a version at the commit for each of its elements.
C10_CacheOffParsesAll ==
    [][(last'.op = "processCommit" /\ ~enableFileCache) =>
          /\ last'.cacheReads = {}
          /\ last'.cacheWrites = {}
          /\ last'.skipped = {}
          /\ db'.file_hashes = db.file_hashes
          /\ ~last'.err =>
                \A f \in EligibleFiles(hist, last'.commit) :
                    /\ FullPath(f) \in last'.parsed
                    /\ \A k \in 1..Len(parseFile(FullPath(f), RepoId)) :
                          getCodeElementVersions(db', parseFile(FullPath(f), RepoId)[k].elementId,
                                                 last'.commit) # NULL]_vars

\* a completed call with the cache off that parsed a file whose stored hash
\* equals the hash of its content
C10_Witness ==
    /\ last.op = "processCommit" /\ ~enableFileCache
    /\ ~last.err
    /\ last.written # {}
    /\ \E f \in SourceFiles :
          /\ FullPath(f) \in last.parsed
          /\ getFileHash(db, RepoId, FullPath(f)) = ContentHash(tree, f)

\* C11: with the file cache on, once processCommit has completed for two
\* distinct commits that both changed a file, the store holds a version at
\* each of the two commits for every element of that file.
C11_CachedCommitsKeepVersions ==
    enableFileCache =>
        \A c1, c2 \in done :
            c1 # c2 =>
                \A f \in EligibleFiles(hist, c1) \cap EligibleFiles(hist, c2) :
                \A k \in 1..Len(parseFile(FullPath(f), RepoId)) :
                    LET e == parseFile(FullPath(f), RepoId)[k]
                    IN /\ getCodeElementVersions(db, e.elementId, c1) # NULL
                       /\ getCodeElementVersions(db, e.elementId, c2) # NULL

\* C19: in every store state each code element row has as elementId the hash
\* of its own (repoId, type, stableIdentifier), and no two rows share
\* (repoId, stableIdentifier).
C19_ElementIdIsHashOfKey ==
    /\ \A e \in db.code_elements :
          e.elementId = generateElementId(e.repoId, e.stableIdentifier, e.type)
    /\ \A e1, e2 \in db.code_elements :
          (e1.repoId = e2.repoId /\ e1.stableIdentifier = e2.stableIdentifier) => e1 = e2

\* C20: an elementId that the store holds is held after every step.
C20_ElementsNeverDeleted ==
    [][\A e \in db.code_elements :
          \E e2 \in db'.code_elements : e2.elementId = e.elementId]_vars

\* the versions of an element that the store holds
VersionsOf(d, elementId) == {v \in d.code_element_versions : v.elementId = elementId}

\* C12: a linkDecisionToElement that succeeds adds the pair of the decision
\* and a version of the element whose commit timestamp is the maximum among
\* the versions of the element stored at the call, a version that
\* getLatestElementVersion returns.
C12_LinksToLatestVersion ==
    [][(last'.op = "linkDecisionToElement" /\ ~last'.err) =>
          /\ \E v \in VersionsOf(db, last'.elementId) :
                /\ v.versionId = last'.versionId
                /\ \A q \in VersionsOf(db, last'.elementId) :
                      TimestampOf(db, q) <= TimestampOf(db, v)
          /\ \E tieAsc \in BOOLEAN :
                findLatestCodeElementVersion(db, last'.elementId, tieAsc).versionId
                   = last'.versionId
          /\ [decisionId |-> last'.decisionId, versionId |-> last'.versionId]
                \in db'.decision_references_code]_vars

\* a link to an element that has an earlier version too
C12_Witness ==
    /\ last.op = "linkDecisionToElement" /\ ~last.err
    /\ \E q \in VersionsOf(db, last.elementId) :
          TimestampOf(db, q) < TimestampOf(db, getCodeElementVersion(db, last.versionId))

\* C13: linkDecisionToElement for an element without a stored version throws
\* and leaves the store, the junction included, as it was.
C13_NoVersionFails ==
    [][(last'.op = "linkDecisionToElement" /\ VersionsOf(db, last'.elementId) = {}) =>
          /\ last'.err
          /\ db'.decision_references_code = db.decision_references_code
          /\ db' = db]_vars

\* a stored decision linked to an element without versions, over a junction
\* that holds a pair
C13_Witness ==
    /\ last.op = "linkDecisionToElement"
    /\ VersionsOf(db, last.elementId) = {}
    /\ getDecisionRecord(db, last.decisionId) # NULL
    /\ db.decision_references_code # {}

\* C14: no step removes a pair of the junction; a linkDecisionToElement adds
\* at most the pair of its decision and the version it resolved, which no
\* version of the element is later than; every other step (processCommit for
\* a later or an earlier commit, reprocessing, creating the decision again)
\* adds none.
C14_JunctionAdditive ==
    [][/\ db.decision_references_code \subseteq db'.decision_references_code
       /\ LET added == db'.decision_references_code \ db.decision_references_code
          IN IF last'.op = "linkDecisionToElement"
             THEN /\ added \subseteq {[decisionId |-> last'.decisionId,
                                      versionId |-> last'.versionId]}
                  /\ \A x \in added :
                        LET v == getCodeElementVersion(db, x.versionId)
                        IN \A q \in VersionsOf(db, v.elementId) :
                              TimestampOf(db, q) <= TimestampOf(db, v)
             ELSE added = {}]_vars

\* a decision linked to two versions of one element, the second link made
\* after a later commit was processed
C14_Witness ==
    /\ last.op = "linkDecisionToElement" /\ ~last.err
    /\ \E x \in db.decision_references_code :
          /\ x.decisionId = last.decisionId
          /\ x.versionId # last.versionId
          /\ getCodeElementVersion(db, x.versionId).elementId = last.elementId

\* C15: a createDecisionRecord that succeeds leaves exactly one record for its
\* (repoId, title), with the decisionId computed from the two; the records of
\* other repositories stay, under other decisionIds; no two records share
\* (repoId, title).
C15_OneDecisionPerTitle ==
    [][(last'.op = "createDecisionRecord" /\ ~last'.err) =>
          LET x == last'.decision
          IN /\ x \in db'.decision_records
             /\ x.decisionId = generateDecisionId(x.repoId, x.title)
             /\ Cardinality({y \in db'.decision_records :
                               y.repoId = x.repoId /\ y.title = x.title}) = 1
             /\ \A y \in db.decision_records :
                   y.repoId # x.repoId =>
                      y \in db'.decision_records /\ y.decisionId # x.decisionId
             /\ \A y, z \in db'.decision_records :
                   (y.repoId = z.repoId /\ y.title = z.title) => y = z]_vars

\* the decision created again, with another time stamp, while the other
\* repository holds a decision of the same title
C15_Witness ==
    /\ last.op = "createDecisionRecord" /\ ~last.err /\ last.again
    /\ \E y \in db.decision_records :
          y.repoId # last.decision.repoId /\ y.title = last.decision.title

\* C16: traceElementHistory returns the empty sequence for an element without
\* versions; otherwise a sequence that starts at a version of the element
\* with the greatest commit timestamp, in which each next entry is the stored
\* version that the entry before names as previousVersionId, with strictly
\* decreasing timestamps, and that ends at a version whose link is null or
\* names a version the store does not hold (the walk then ends with the
\* prefix, and never goes on for ever).
C16_TraceFollowsLinks ==
    last.op = "traceElementHistory" =>
        LET history == last.history
            versions == VersionsOf(db, last.elementId)
        IN /\ \A i \in 1..Len(history) : history[i] \in db.code_element_versions
           /\ versions = {} => history = <<>>
           /\ versions # {} =>
                 /\ Len(history) >= 1
                 /\ history[1] \in versions
                 /\ \A q \in versions : TimestampOf(db, q) <= TimestampOf(db, history[1])
                 /\ \/ history[Len(history)].previousVersionId = NULL
                    \/ getCodeElementVersion(db, history[Len(history)].previousVersionId) = NULL
           /\ \A i \in 1..(Len(history) - 1) :
                 /\ history[i].previousVersionId = history[i + 1].versionId
                 /\ TimestampOf(db, history[i + 1]) < TimestampOf(db, history[i])

\* a walk of two versions that ended at a link to a version the store lacks
C16_Witness ==
    /\ last.op = "traceElementHistory"
    /\ Len(last.history) = 2
    /\ last.history[2].previousVersionId # NULL
    /\ getCodeElementVersion(db, last.history[2].previousVersionId) = NULL

\* a line of the log that does not split into the seven pieces of the format
Malformed(h, c) == Len(LogLine(h, c)) # 7

C18_StoreUnavailableIsFatal ==
    [][(main.phase = "running" /\ main' # main /\ ~db.open) => main'.phase = "threw"]_vars

\* the commits of the stored versions of an element
CommitsOf(d, elementId) == {getCommit(d, v.commitHash) : v \in VersionsOf(d, elementId)}

\* a sequence of commits without repeats, newest first, that holds the n
\* newest commits of the set
NewestFirst(commits, all, n) ==
    /\ Len(commits) = n
    /\ \A i \in 1..Len(commits) : commits[i] \in all
    /\ \A i, j \in 1..Len(commits) :
          i < j => /\ commits[i] # commits[j]
                   /\ commits[i].timestamp >= commits[j].timestamp
    /\ \A c \in all :
          (\A i \in 1..Len(commits) : commits[i] # c) =>
              \A i \in 1..Len(commits) : c.timestamp <= commits[i].timestamp

C22_ElementsWithVersionAtCommit ==
    last.op = "getElementsModifiedByCommit" =>
        IF getCommit(db, last.commit) = NULL THEN last.err
        ELSE /\ ~last.err
             /\ {last.elements[i] : i \in 1..Len(last.elements)} =
                   {e \in db.code_elements :
                       \E v \in VersionsOf(db, e.elementId) : v.commitHash = last.commit}
             /\ \A i, j \in 1..Len(last.elements) :
                   i # j => last.elements[i] # last.elements[j]

\* a call that returned the elements of one file and left out a stored
\* element that has a version at another commit only
C22_Witness ==
    /\ last.op = "getElementsModifiedByCommit" /\ ~last.err
    /\ Len(last.elements) >= 2
    /\ \E e \in db.code_elements :
          /\ VersionsOf(db, e.elementId) # {}
          /\ \A i \in 1..Len(last.elements) : last.elements[i] # e

\* the stored elements of a repository
ElementsOf(d, repoId) == {e \in d.code_elements : e.repoId = repoId}

\* the stored file element that holds an element of the repository: the file
\* its stable identifier starts with
ContainingFiles(d, e) ==
    {f \in ElementsOf(d, e.repoId) :
        f.type = "file" /\ f.stableIdentifier = <<e.stableIdentifier[1]>>}

ContainsEdge(f, e) == [source |-> f.elementId, target |-> e.elementId, type |-> "contains"]

\* one node per stored element of the repository, and exactly one 'contains'
\* edge per element of the given types whose file element is stored, from
\* that file element, and no other edge
DiagramOf(d, repoId, nodes, edges, types) ==
    LET contained == {e \in ElementsOf(d, repoId) : e.type \in types}
    IN /\ Len(nodes) = Cardinality(ElementsOf(d, repoId))
       /\ {nodes[i].elementId : i \in 1..Len(nodes)} =
             {e.elementId : e \in ElementsOf(d, repoId)}
       /\ \A e \in contained : \A f \in ContainingFiles(d, e) :
             Cardinality({i \in 1..Len(edges) : edges[i] = ContainsEdge(f, e)}) = 1
       /\ \A i \in 1..Len(edges) :
             \E e \in contained : \E f \in ContainingFiles(d, e) :
                edges[i] = ContainsEdge(f, e)

\* C23 as stated: one node per stored element of the repository and, for
\* every class or function element whose file element is stored, exactly one
\* 'contains' edge from that file element to it, and no other edges.
C23_EdgesForClassesAndFunctions ==
    last.op = "getArchitectureDiagramData" =>
        DiagramOf(db, last.repoId, last.nodes, last.edges, {"class", "function"})

\* C23, amended: one node per stored element of the repository and, for
\* every class element whose file element is stored, exactly one 'contains'
\* edge from that file element to it, and no other edges: a function element
\* gets a node and no edge.
C23_EdgesForClasses ==
    last.op = "getArchitectureDiagramData" =>
        DiagramOf(db, last.repoId, last.nodes, last.edges, {"class"})

\* a diagram with the edge of a class and the node of a function whose file
\* element is stored
C23_Witness ==
    /\ last.op = "getArchitectureDiagramData"
    /\ Len(last.edges) = 1
    /\ \E e \in ElementsOf(db, last.repoId) :
          e.type = "function" /\ ContainingFiles(db, e) # {}

\* C24: in the diagram the hasDecisions flag of a node is true exactly when
\* some version of the element is linked to a decision: false for an element
\* without versions or without a linked decision.
C24_FlagIffLinkedDecision ==
    last.op = "getArchitectureDiagramData" =>
        \A i \in 1..Len(last.nodes) :
            last.nodes[i].hasDecisions <=>
                \E v \in VersionsOf(db, last.nodes[i].elementId) :
                \E x \in db.decision_references_code : x.versionId = v.versionId

\* how often a value comes in a sequence
Count(s, x) == Cardinality({i \in 1..Len(s) : s[i] = x})

\* C25: in every store state reached by saveCommitParent calls, p is among
\* getCommitParents(c) if and only if c is among getCommitChildren(p), no
\* edge comes twice in either answer, and a saveCommitParent that succeeds,
\* for a new edge or for one the store holds, leaves its edge in both
\* answers once.
C25_ParentsAndChildrenAgree ==
    /\ \A c, p \in Commits :
          /\ Count(getCommitParents(db, c), p) = Count(getCommitChildren(db, p), c)
          /\ Count(getCommitParents(db, c), p) <= 1
    /\ (last.op = "saveCommitParent" /\ ~last.err) =>
          /\ Count(getCommitParents(db, last.commit), last.parent) = 1
          /\ Count(getCommitChildren(db, last.parent), last.commit) = 1

\* an edge saved again, of a commit that has two parents
C25_Witness ==
    /\ last.op = "saveCommitParent" /\ ~last.err /\ last.again
    /\ Len(getCommitParents(db, last.commit)) = 2
    /\ Len(getCommitChildren(db, last.parent)) = 2

\* C26: in every store state reached by saveRepository calls,
\* getRepositoryIds returns the repoIds that were saved, each once (none for
\* the fresh store), and getRepository returns for each of them the record
\* of its last save, and null for a repoId never saved.
C26_RepositoriesUpserted ==
    main.phase = "store" =>
        LET ids == getRepositoryIds(db)
        IN /\ {ids[i] : i \in 1..Len(ids)} = {r.repoId : r \in main.saved}
           /\ \A i, j \in 1..Len(ids) : i # j => ids[i] # ids[j]
           /\ \A r \in main.saved : getRepository(db, r.repoId) = r
           /\ \A p \in RepoPaths :
                 (\A r \in main.saved : r.repoId # Sha256(p)) =>
                     getRepository(db, Sha256(p)) = NULL

\* a repository saved again under another name, next to another repository
C26_Witness ==
    /\ last.op = "saveRepository" /\ last.again
    /\ Len(getRepositoryIds(db)) = 2
    /\ \E name \in FolderNames(last.repository.path) : <<name>> # last.repository.name

\* C27: two ingestion runs over the same commits end in the store state of
\* one run: when the loop over the log has run a second time (a run started
\* again after the first, nothing edited in between), the store is as the
\* first run left it.
C27_TwoRunsEndAsOne ==
    (main.phase = "restore" /\ \A f \in Files : ~tree[f]) => db = coldSnap

\* C28: while a processCommit is in progress no store state shows less
\* history than the store held when the call began: a version that had a
\* previousVersionId then has one in every intermediate state, and a
\* traceElementHistory taken in between is no shorter than the one the
\* store gave before the call.
C28_ReadsSeeCommittedHistory ==
    main.phase = "call" =>
        /\ \A v \in coldSnap.code_element_versions :
              v.previousVersionId # NULL =>
                 \E w \in db.code_element_versions :
                    w.versionId = v.versionId /\ w.previousVersionId # NULL
        /\ last.op = "traceElementHistory" =>
              \E tieAsc \in BOOLEAN :
                 Len(last.history) >=
                    Len(traceElementHistory(coldSnap, last.elementId, tieAsc))

\* an invocation that has written to the store and has not returned
InProgress(run) == run.pc \notin {"off", "returned"} /\ run.events # <<>>

\* C29: at most one ingestion run is active on a store: an invocation of the
\* index-repository command issues no store write while another invocation
\* is between its first store write and its return.
C29_OneRunAtATime ==
    [][\A k \in Invocations :
          (main[k].pc \notin {"off", "returned"} /\ main'[k] # main[k]) =>
             \A o \in Invocations \ {k} : ~InProgress(main[o])]_vars

\* the place of a commit in the log
LogPos(log, c) == CHOOSE j \in 1..Len(log) : log[j] = c

\* the waits among the first j events
YieldsUpTo(ev, j) == Cardinality({k \in 1..j : ev[k][1] = "yield"})

\* the store calls of a run go line by line down the log, every line before
\* the current one has had its calls and no later one has, a line has at most
\* one saveCommit, after its saveDeveloper calls; the k-th wait comes when
\* exactly the first k batches of batchSize lines (the last may be shorter)
\* have had their calls, and the run returns after the wait of the last batch
SequentialBatches(run) ==
    LET ev == run.events
        n == Len(run.log)
        full == (n + batchSize - 1) \div batchSize
        IsWrite(j) == ev[j][2] # 0
        Min(a, b) == IF a < b THEN a ELSE b
    IN /\ \A j, k \in 1..Len(ev) :
             (j < k /\ IsWrite(j) /\ IsWrite(k)) =>
                /\ LogPos(run.log, ev[j][2]) <= LogPos(run.log, ev[k][2])
                /\ ev[j][1] = "saveCommit" => ev[k][2] # ev[j][2]
       /\ \A p \in 1..n :
             (\E j \in 1..Len(ev) : ev[j][2] = run.log[p])
                <=> (p < run.i \/ (p = run.i /\ run.pc \in {"committer", "commit"}))
       /\ \A j \in 1..Len(ev) :
             ev[j][1] = "yield" =>
                {ev[k][2] : k \in {x \in 1..j : IsWrite(x)}}
                   = {run.log[p] : p \in 1..Min(YieldsUpTo(ev, j) * batchSize, n)}
       /\ run.pc \notin {"off", "yield"} =>
             YieldsUpTo(ev, Len(ev)) = IF run.i > n THEN full ELSE (run.i - 1) \div batchSize
       /\ run.pc = "returned" <=> (run.i > n /\ YieldsUpTo(ev, Len(ev)) = full)

\* every memory check comes right after a wait
ChecksFollowYields(ev) ==
    \A j \in 1..Len(ev) :
       ev[j][1] = "checkMemoryUsage" => (j > 1 /\ ev[j - 1][1] = "yield")

\* C30 as stated: within one indexCommitHistory run the commits are processed
\* one after the other in log order, each once, in consecutive batches of at
\* most 10, all store writes of a commit before any of the next, and each
\* batch is followed by exactly one yield point with one memory check.
C30_SequentialBatchesWithMemoryCheck ==
    main.pc # "off" =>
        /\ SequentialBatches(main)
        /\ ChecksFollowYields(main.events)
        /\ \A j \in 1..Len(main.events) :
              main.events[j][1] = "yield" =>
                 (j < Len(main.events) /\ main.events[j + 1][1] = "checkMemoryUsage")

\* C30, amended: the same, with the memory check after the yield point of a
\* batch exactly when a memory monitor is registered, and none otherwise.
C30_SequentialBatchesCheckIfMonitor ==
    main.pc # "off" =>
        /\ SequentialBatches(main)
        /\ ChecksFollowYields(main.events)
        /\ \A j \in 1..Len(main.events) :
              main.events[j][1] = "yield" =>
                 (main.memoryMonitor <=>
                     (j < Len(main.events) /\ main.events[j + 1][1] = "checkMemoryUsage"))

\* a run over the longest log has returned, after three batches, with the
\* monitor registered and a commit it could not store
C30_Witness ==
    /\ main.pc = "returned"
    /\ Len(main.log) = MaxLogLen
    /\ main.memoryMonitor
    /\ YieldsUpTo(main.events, Len(main.events)) = 3
    /\ \E c \in 1..head : getCommit(db, c) = NULL

\* the last call of the monitor asked for x
Asked(x) == \E j \in 1..Len(last.asked) : last.asked[j] = x

\* what the last call asked for after its first x
AskedAfter(x) ==
    LET j == CHOOSE k \in 1..Len(last.asked) :
                 last.asked[k] = x /\ \A l \in 1..(k - 1) : last.asked[l] # x
    IN SubSeq(last.asked, j + 1, Len(last.asked))

\* the tables of a store, whatever its connection
RowsOfStore(d) == [d EXCEPT !.open = TRUE]

\* C31 as stated: a sample above the warning threshold has a cache clear
\* requested from the store during the same check, and a sample above the
\* limit threshold a store compaction as well.
C31_ClearAboveWarning ==
    last.op = "checkMemoryUsage" =>
        /\ last.rssUsedMB > memoryWarningThreshold => Asked("clearCaches")
        /\ last.rssUsedMB > memoryLimitThreshold => Asked("VACUUM")

\* C31, amended: a sample above the limit threshold has clearCaches called on
\* the store during the same check, which shrinks the cache and compacts the
\* store when the connection is there; a sample not above the limit threshold
\* has nothing requested from the store during the check, and above the
\* warning threshold at most a warning is shown.
C31_ClearAboveLimit ==
    last.op = "checkMemoryUsage" =>
        /\ last.rssUsedMB > memoryLimitThreshold =>
              /\ Asked("clearCaches")
              /\ last.wasOpen => (Asked("shrink_memory") /\ Asked("VACUUM"))
              /\ ~last.wasOpen => (~Asked("shrink_memory") /\ ~Asked("VACUUM"))
        /\ last.rssUsedMB <= memoryLimitThreshold =>
              /\ last.asked \in {<<>>, <<"showWarningMessage">>}
              /\ last.rssUsedMB <= memoryWarningThreshold => last.asked = <<>>

\* a check found the memory between the limit and the emergency threshold
\* while the connection was there, and the store was asked to compact
C31_Witness ==
    /\ last.op = "checkMemoryUsage"
    /\ last.rssUsedMB > memoryLimitThreshold
    /\ last.rssUsedMB <= memoryEmergencyThreshold
    /\ last.wasOpen
    /\ Asked("VACUUM")

\* C32 as stated: above the emergency threshold the check adds a critical
\* message to the response of the limit threshold and nothing else: the
\* connection of the store is neither closed nor reopened.
C32_EmergencyOnlySignals ==
    (last.op = "checkMemoryUsage" /\ last.rssUsedMB > memoryEmergencyThreshold) =>
        /\ Asked("showErrorMessage")
        /\ ~Asked("closeConnection")
        /\ db.open = last.wasOpen
        /\ ~main.reopening

\* C32, amended: above the emergency threshold the check adds a critical
\* message to the response of the limit threshold and then recovers on its
\* own: clearCaches once more, closeConnection, and initializeDatabase
\* waiting behind it; the connection is absent when the check returns.
C32_EmergencyClosesAndReopens ==
    (last.op = "checkMemoryUsage" /\ last.rssUsedMB > memoryEmergencyThreshold) =>
        /\ Asked("showErrorMessage")
        /\ AskedAfter("showErrorMessage") =
              <<"clearCaches">>
              \o (IF last.wasOpen THEN <<"shrink_memory", "VACUUM">> ELSE <<>>)
              \o <<"closeConnection", "showWarningMessage">>
        /\ ~db.open
        /\ main.reopening

\* a check above the emergency threshold has closed a connection that was there
C32_Witness ==
    /\ last.op = "checkMemoryUsage"
    /\ last.rssUsedMB > memoryEmergencyThreshold
    /\ last.wasOpen
    /\ ~db.open
    /\ db.commits # {}

\* C33: a response of the monitor (a check with its cache clear, compaction
\* and close of the connection, the optimizeMemory of the warning, the
\* initializeDatabase that reopens) leaves every row of every table as it
\* was, whatever store operations came before it.
C33_ResponsesKeepRows ==
    [][main' # main => RowsOfStore(db') = RowsOfStore(db)]_vars

\* the connection has been reopened on a store with commits and versions
C33_Witness ==
    /\ last.op = "initializeDatabase"
    /\ db.open
    /\ db.commits # {}
    /\ db.code_element_versions # {}

\* C34: when the memory monitor closes and reopens the connection during a
\* run of indexCommitHistory, every commit of the log is stored when the run
\* returns (the log has no malformed line).
C34_NoCommitDropped ==
    (main.pc = "returned" /\ \A c \in 1..head : ~Malformed(hist, c)) =>
        \A c \in 1..head : getCommit(db, c) # NULL

\* C35: a read or a write of the store called while the connection is absent
\* rejects and leaves every table as it was, and a closeConnection called
\* while the connection is absent resolves, the tables as they were.
C35_AbsentConnectionRejects ==
    /\ (last.op \in StoreWrites \cup StoreReads /\ ~last.wasOpen) =>
          /\ last.err
          /\ last.value = NULL
          /\ RowsOfStore(db) = RowsOfStore(last.before)
    /\ (last.op = "closeConnection" /\ ~last.wasOpen) =>
          /\ ~last.err
          /\ RowsOfStore(db) = RowsOfStore(last.before)

\* a read of a commit the store holds was called on the absent connection
C35_Witness ==
    /\ last.op = "getCommit"
    /\ ~last.wasOpen
    /\ last.err
    /\ db.commits # {}
    /\ db.code_element_versions # {}

\* the versions of the commit for every element the parser gives for the file
VersionsWritten(d, fullPath, commitHash) ==
    \A i \in 1..Len(parseFile(fullPath, RepoId)) :
        getCodeElementVersion(d, generateVersionId(parseFile(fullPath, RepoId)[i].elementId,
                                                   commitHash)) # NULL

\* C36: a processCommit call records the content hash of a file only when the
\* parser gave elements for the file and the element and the version of the
\* commit are written for each of them: a file that the call parsed with an
\* empty element list, or for which a version of the commit is missing, has
\* no hash of its content in the change cache after the call, and the
\* file-cache test does not skip it at the next call
C36_HashOnlyAfterElementsWritten ==
    last.op = "processCommit" =>
        \A fullPath \in last.parsed :
            parseFile(fullPath, RepoId) = <<>> \/ ~VersionsWritten(db, fullPath, last.commit)
                => /\ getFileHash(db, RepoId, fullPath) # ContentHash(tree, RelPath(fullPath))
                   /\ ~CacheHit(enableFileCache, getFileHash(db, RepoId, fullPath),
                                ContentHash(tree, RelPath(fullPath)))

\* the elements whose node in the diagram of the repository carries the flag
Flagged(d, tieAsc) ==
    {getArchitectureDiagramData(d, RepoId, tieAsc).nodes[i].elementId :
        i \in {k \in 1..Len(getArchitectureDiagramData(d, RepoId, tieAsc).nodes) :
                  getArchitectureDiagramData(d, RepoId, tieAsc).nodes[k].hasDecisions}}

\* C37: the hasDecisions flag is monotone: an element whose node carries the
\* flag in one state carries it in every later state, whatever commits are
\* ingested, decisions created or links added in between
C37_FlagMonotone ==
    [][\A tieAsc \in BOOLEAN : Flagged(db, tieAsc) \subseteq Flagged(db', tieAsc)]_vars

\* the junction rows of a decision
LinksOf(d, decisionId) == {x \in d.decision_references_code : x.decisionId = decisionId}

\* C38: a createDecisionRecord for a (repoId, title) that the store holds keeps
\* the decisionId, the repoId, the title and every decision-to-version link of
\* the decision; the content, createdAt and authorDevId of the row are those
\* of the latest call that succeeded, and no other decision row changes.
C38_RecreateKeepsIdAndLinks ==
    [][(last'.op \in {"createDecisionRecord", "captureDecision"} /\ last'.again) =>
          LET decisionId == last'.decision.decisionId
              old == getDecisionRecord(db, decisionId)
              new == getDecisionRecord(db', decisionId)
          IN /\ new # NULL
             /\ new.decisionId = old.decisionId
             /\ new.repoId = old.repoId
             /\ new.title = old.title
             /\ LinksOf(db, decisionId) \subseteq LinksOf(db', decisionId)
             /\ new = IF last'.err THEN old ELSE last'.decision
             /\ db'.decision_records \ {new} = db.decision_records \ {old}]_vars

\* C38 witness: a decision with a link has been captured again with another
\* content, another createdAt and another author, and the store holds the
\* row of the latest call with the link
C38_Witness ==
    /\ last.op = "captureDecision"
    /\ last.again
    /\ ~last.err
    /\ LinksOf(db, last.decision.decisionId) # {}
    /\ last.replaced.content # last.decision.content
    /\ last.replaced.createdAt # last.decision.createdAt
    /\ last.replaced.authorDevId # last.decision.authorDevId
    /\ getDecisionRecord(db, last.decision.decisionId) = last.decision

\* C39: the components derive one repoId for one repository path: every
\* Commit that getCommit or getCommitsForFile returns for the path carries the
\* repoId of the repository row stored for the path and the repoId of the
\* commit row stored for its hash
C39_OneRepoIdPerPath ==
    last.op \in {"getCommit", "getCommitsForFile"} =>
        \A i \in 1..Len(last.commits) :
            /\ \A r \in db.repositories :
                  r.path = last.repoPath => last.commits[i].repoId = r.repoId
            /\ getCommit(db, last.commits[i].commitHash) # NULL =>
                  last.commits[i].repoId = getCommit(db, last.commits[i].commitHash).repoId
====
